---- MODULE Spec2Model ----
(***************************************************************************)
(* A model of the signal-fusion, decision and state core of prepper:       *)
(*   scripts/signals.py         RollingBaseline, SignalsEngine             *)
(*   scripts/state.py           AlertKey, StateStore                       *)
(*   scripts/prepper_alerts.py  PrepperAlertsRunner                        *)
(*                                                                         *)
(* Python strings are sequences of one-character strings, so that joins,   *)
(* case folding and substring search are computed, not assumed.  A float   *)
(* that is a median of integers is kept as twice its value (an integer).   *)
(***************************************************************************)
EXTENDS Integers, Sequences, FiniteSets, TLC

VARIABLES
    \* ---- a stand-alone RollingBaseline (signals.py) ----
    rb_window,      \* RollingBaseline.window
    rb_samples,     \* RollingBaseline.samples, oldest first
    rb_ret,         \* twice the value returned by the last observe call
    rb_calls,       \* every value passed to observe so far, in call order
    \* ---- SignalsEngine (signals.py) ----
    cfg,            \* the constructor's arguments
    baselines,      \* SignalsEngine.baselines: location -> samples
    confirmations,  \* SignalsEngine.confirmations: location -> set of names
    surge,          \* the SurgeResult returned by the last record_news
    sig_log,        \* every call made on the engine so far, in call order
    \* ---- StateStore (state.py) and its file ----
    state,          \* the StateStore in memory: seen, cooldowns, metadata
    file,           \* the document at StateStore.path, or NoFile
    now,            \* utcnow(), in minutes
    st_ret,         \* the last in_cooldown call: bucket and returned value
    st_ops,         \* StateStore calls made so far
    marked,         \* every AlertKey mark_seen was ever called with
    started,        \* every bucket start_cooldown was ever called with
    \* ---- one call of _decision_from_nws (prepper_alerts.py) ----
    severe_thresholds,  \* PrepperAlertsRunner.severe_thresholds
    nws_item,       \* the item passed
    nws_hysteria,   \* the hysteria_active flag passed
    nws_out,        \* the AlertDecision returned, or NoDecision
    nws_pc,         \* "call" before the call, "returned" after it
    \* ---- PrepperAlertsRunner and its surroundings (prepper_alerts.py) ----
    rcfg,           \* settings, environment switches and credentials
    scenario,       \* the configured locations, and what the run is tried with
    summary,        \* RunSummary.locations
    latest_run,     \* the document at LATEST_RUN_PATH, or NoRunFile
    outbox,         \* every message a delivery service has accepted
    dispatches,     \* number of dispatch calls made so far, per composite key
    completed,      \* the AlertKeys whose dispatch call has returned
    cooling,        \* the cooldowns started so far, with their expiry
    last_emit,      \* the last _emit_if_needed call and its outcome
    emits,          \* number of _emit_if_needed calls made directly
    run_pc,         \* where run() stands
    loc_ix,         \* index of the location being processed
    src_ix,         \* index of the next source to poll
    pending_nws,    \* run()'s local pending_nws
    pending_usgs,   \* run()'s local pending_usgs
    rss_items,      \* run()'s local rss_items
    pending_llm,    \* accepted classifier items not yet passed to emit
    hysteria_flag,  \* run()'s local hysteria_active
    runs,           \* number of runner processes started so far
    raised,         \* (location, provider) pairs whose fetch raised in this run
    llm_raised,     \* (location, step) pairs: enrichment or classification raised
    abort_cause,    \* why the last runner process ended abnormally, if it did
    \* ---- one call of _decision_from_usgs (prepper_alerts.py) ----
    usgs_loc,       \* the location_id passed
    usgs_item,      \* the item passed
    usgs_out,       \* the AlertDecision returned, or NoDecision
    usgs_pc,        \* "call" before the call, "returned" after it
    \* ---- one call of AlertDispatcher.dispatch (alerting.py) ----
    dsp_payload,    \* the AlertPayload passed
    dsp_push,       \* how the push service answers
    dsp_email,      \* how the mail server answers
    dsp_out,        \* what the call did and returned
    dsp_pc          \* "call" before the call, "returned" after it

rbVars == <<rb_window, rb_samples, rb_ret, rb_calls>>
sigVars == <<cfg, baselines, confirmations, surge, sig_log>>
storeVars == <<state, file, now, st_ret, st_ops, marked, started>>
nwsVars == <<severe_thresholds, nws_item, nws_hysteria, nws_out, nws_pc>>
callVars == <<usgs_loc, usgs_item, usgs_out, usgs_pc,
              dsp_payload, dsp_push, dsp_email, dsp_out, dsp_pc>>
emitVars == <<rcfg, summary, outbox, dispatches, completed, cooling, last_emit, emits>>
loopVars == <<scenario, latest_run, run_pc, loc_ix, src_ix, pending_nws, pending_usgs,
              rss_items, pending_llm, hysteria_flag, runs, raised, llm_raised, abort_cause>>

\* What a specification of one component leaves alone.
allButRb == <<sigVars, storeVars, nwsVars, callVars, emitVars, loopVars>>
allButSig == <<rbVars, storeVars, nwsVars, callVars, emitVars, loopVars>>
allButStore == <<rbVars, sigVars, nwsVars, callVars, emitVars, loopVars>>
allButNws == <<rbVars, sigVars, storeVars, callVars, emitVars, loopVars>>

vars == <<rb_window, rb_samples, rb_ret, rb_calls,
          cfg, baselines, confirmations, surge, sig_log,
          state, file, now, st_ret, st_ops, marked, started,
          severe_thresholds, nws_item, nws_hysteria, nws_out, nws_pc,
          rcfg, summary, outbox, dispatches, completed, cooling, last_emit, emits,
          scenario, latest_run, run_pc, loc_ix, src_ix, pending_nws, pending_usgs,
          rss_items, pending_llm, hysteria_flag, runs, raised, llm_raised, abort_cause,
          usgs_loc, usgs_item, usgs_out, usgs_pc,
          dsp_payload, dsp_push, dsp_email, dsp_out, dsp_pc>>

----------------------------------------------------------------------------
(* Bounds of the model. *)

MaxWindow == 3      \* largest RollingBaseline window tried
MaxObserve == 5     \* observe calls per behaviour
MaxValue == 3       \* largest count passed to observe
MaxSigOps == 3      \* calls on a SignalsEngine per behaviour
MaxStoreOps == 4    \* calls on a StateStore per behaviour
MaxTime == 2        \* minutes the clock advances per behaviour
MaxEmits == 3       \* direct _emit_if_needed calls tried
MaxRuns == 2        \* runner processes started

----------------------------------------------------------------------------
(* Generic helpers. *)

Range(s) == {s[i] : i \in 1..Len(s)}

Min(a, b) == IF a <= b THEN a ELSE b

\* The last n elements of s (all of s when it has fewer).
LastN(s, n) == IF Len(s) <= n THEN s ELSE SubSeq(s, Len(s) - n + 1, Len(s))

\* Python's sorted(): insertion of each element into an ascending list.
RECURSIVE InsertSorted(_, _)
InsertSorted(x, s) ==
    IF s = <<>> THEN <<x>>
    ELSE IF x <= Head(s) THEN <<x>> \o s
    ELSE <<Head(s)>> \o InsertSorted(x, Tail(s))

RECURSIVE Sorted(_)
Sorted(s) == IF s = <<>> THEN <<>> ELSE InsertSorted(Head(s), Sorted(Tail(s)))

----------------------------------------------------------------------------
(* signals.py: RollingBaseline *)

\* RollingBaseline.median, times two: 0.0 for no samples, data[mid] for an
\* odd count, (data[mid-1] + data[mid]) / 2.0 for an even one (0-based mid).
MedianOffByOne(samples) ==
    IF samples = <<>> THEN 0
    ELSE LET data == Sorted(samples)
             mid == Len(data) \div 2
         IN  IF Len(data) % 2 = 1 THEN 2 * data[mid + 1]
             ELSE 2 * data[mid + 1]

Median2(samples) ==
    IF samples = <<>> THEN 0
    ELSE LET data == Sorted(samples)
             mid == Len(data) \div 2
         IN  IF Len(data) % 2 = 1 THEN 2 * data[mid + 1]
             ELSE data[mid] + data[mid + 1]

\* deque(maxlen=window).append: the oldest sample leaves a full deque.
DequeAppendDropsNewest(samples, window, value) ==
    IF Len(samples) >= window THEN samples ELSE Append(samples, value)

DequeAppend(samples, window, value) ==
    IF Len(samples) >= window
    THEN Append(SubSeq(samples, Len(samples) - window + 2, Len(samples)), value)
    ELSE Append(samples, value)

\* RollingBaseline.observe: [ret |-> twice the returned baseline,
\*                           samples |-> the samples afterwards].
ObserveAfterAppend(samples, window, value) ==
    LET after == IF value > 0 THEN DequeAppend(samples, window, value) ELSE samples
    IN  [ret |-> Median2(after), samples |-> after]

ObserveKeepsZero(samples, window, value) ==
    [ret |-> Median2(samples), samples |-> DequeAppend(samples, window, value)]

Observe(samples, window, value) ==
    LET baseline == Median2(samples)
    IN  [ret |-> baseline,
         samples |-> IF value > 0 THEN DequeAppend(samples, window, value)
                     ELSE samples]

----------------------------------------------------------------------------
(* Python str methods on sequences of characters.  A character outside
   ASCII is written by name: "e_acute" decomposes (NFKD) to "e" and a
   combining accent, "sharp_s" has no decomposition. *)

UpperLetters == <<"A", "B", "C", "D", "E", "F", "G", "H", "I", "J", "K", "L", "M",
                  "N", "O", "P", "Q", "R", "S", "T", "U", "V", "W", "X", "Y", "Z">>
LowerLetters == <<"a", "b", "c", "d", "e", "f", "g", "h", "i", "j", "k", "l", "m",
                  "n", "o", "p", "q", "r", "s", "t", "u", "v", "w", "x", "y", "z">>

IsUpper(ch) == \E i \in 1..Len(UpperLetters) : UpperLetters[i] = ch
IsLower(ch) == \E i \in 1..Len(LowerLetters) : LowerLetters[i] = ch
IsLetter(ch) == IsUpper(ch) \/ IsLower(ch)

LowerChar(ch) ==
    IF IsUpper(ch)
    THEN LowerLetters[CHOOSE i \in 1..Len(UpperLetters) : UpperLetters[i] = ch]
    ELSE ch

UpperChar(ch) ==
    IF IsLower(ch)
    THEN UpperLetters[CHOOSE i \in 1..Len(LowerLetters) : LowerLetters[i] = ch]
    ELSE ch

\* str.lower, str.upper
Lower(s) == [i \in 1..Len(s) |-> LowerChar(s[i])]
Upper(s) == [i \in 1..Len(s) |-> UpperChar(s[i])]

\* str.title: a letter is upper-cased after a non-letter, lower-cased after
\* a letter.
Title(s) ==
    [i \in 1..Len(s) |->
        IF i = 1 \/ ~IsLetter(s[i - 1]) THEN UpperChar(s[i]) ELSE LowerChar(s[i])]

\* str.strip() is empty: only whitespace.
IsBlank(s) == \A i \in 1..Len(s) : s[i] = " "

\* sub in s
Contains(sub, s) ==
    \E i \in 0..(Len(s) - Len(sub)) :
        \A j \in 1..Len(sub) : s[i + j] = sub[j]

\* keywords_builder.normalize_ascii:
\* unicodedata.normalize("NFKD", value).encode("ascii", "ignore").decode("ascii")
RECURSIVE NormalizeAscii(_)
NormalizeAscii(s) ==
    IF s = <<>> THEN <<>>
    ELSE LET ch == Head(s)
             rest == NormalizeAscii(Tail(s))
         IN  IF ch = "e_acute" THEN <<"e">> \o rest
             ELSE IF ch = "sharp_s" THEN rest
             ELSE <<ch>> \o rest

\* s[:n]
Truncate(s, n) == IF Len(s) <= n THEN s ELSE SubSeq(s, 1, n)

\* x or y, for strings (None is the empty string here: every use in the
\* program tests the value with "or" or with "if").
Or(x, y) == IF x # <<>> THEN x ELSE y

----------------------------------------------------------------------------
(* Strings of the program, as sequences of characters. *)

S_home == <<"h", "o", "m", "e">>
S_work == <<"w", "o", "r", "k">>
S_news == <<"n", "e", "w", "s">>
S_gdelt == <<"g", "d", "e", "l", "t">>
S_llm_news == <<"l", "l", "m", "_", "n", "e", "w", "s">>
S_nws == <<"n", "w", "s">>
S_usgs == <<"u", "s", "g", "s">>
S_abc == <<"a", "b", "c">>
S_watch == <<"w", "a", "t", "c", "h">>
S_minor == <<"m", "i", "n", "o", "r">>
S_moderate == <<"m", "o", "d", "e", "r", "a", "t", "e">>
S_immediate == <<"i", "m", "m", "e", "d", "i", "a", "t", "e">>
S_NWS_Alert == <<"N", "W", "S", " ", "A", "l", "e", "r", "t">>
S_severity_eq == <<"s", "e", "v", "e", "r", "i", "t", "y", "=">>
S_hysteria == <<"h", "y", "s", "t", "e", "r", "i", "a">>
S_Extreme == <<"E", "x", "t", "r", "e", "m", "e">>
S_Severe == <<"S", "e", "v", "e", "r", "e">>
S_Moderate == <<"M", "o", "d", "e", "r", "a", "t", "e">>
S_MINOR == <<"M", "I", "N", "O", "R">>
S_severe == <<"s", "e", "v", "e", "r", "e">>
S_Unknown == <<"U", "n", "k", "n", "o", "w", "n">>
S_Immediate == <<"I", "m", "m", "e", "d", "i", "a", "t", "e">>
S_Expected == <<"E", "x", "p", "e", "c", "t", "e", "d">>
S_Tornado_Warning == <<"T", "o", "r", "n", "a", "d", "o", " ",
                       "W", "a", "r", "n", "i", "n", "g">>
S_Flood_Watch == <<"F", "l", "o", "o", "d", " ", "W", "a", "t", "c", "h">>
S_Elm_County == <<"E", "l", "m", " ", "C", "o", "u", "n", "t", "y">>
S_Oak_County == <<"O", "a", "k", " ", "C", "o", "u", "n", "t", "y">>
S_Near_Cafe == <<"N", "e", "a", "r", " ", "C", "a", "f", "e">>
S_Cafe_accent == <<"C", "a", "f", "e_acute">>
S_elm == <<"e", "l", "m">>
S_uri == <<"u", "r", "i">>
S_earthquake == <<"e", "a", "r", "t", "h", "q", "u", "a", "k", "e">>
S_USGS_event == <<"U", "S", "G", "S", " ", "e", "v", "e", "n", "t">>
S_mag_eq == <<"m", "a", "g", "=">>
S_Reason == <<"R", "e", "a", "s", "o", "n", ":", " ">>
S_Elm_fire == <<"E", "l", "m", " ", "f", "i", "r", "e">>
S_Ohio_news == <<"O", "h", "i", "o", " ", "n", "e", "w", "s">>
S_Sports == <<"S", "p", "o", "r", "t", "s">>
S_a_com == <<"a", ".", "c", "o", "m">>
S_b_com == <<"b", ".", "c", "o", "m">>
S_u1 == <<"u", "1">>
S_u2 == <<"u", "2">>
S_Elm == <<"E", "l", "m">>
S_Ohio == <<"O", "h", "i", "o">>
S_OH == <<"O", "H">>
S_general == <<"g", "e", "n", "e", "r", "a", "l">>
S_llm_colon == <<"l", "l", "m", ":">>
S_sev_eq == <<" ", "s", "e", "v", "=">>
S_no_relevant_items == <<"n", "o", "_", "r", "e", "l", "e", "v", "a", "n", "t", "_",
                         "i", "t", "e", "m", "s">>
S_Office == <<"O", "f", "f", "i", "c", "e">>
S_boom == <<"b", "o", "o", "m">>
S_enrich == <<"e", "n", "r", "i", "c", "h">>
S_classify == <<"c", "l", "a", "s", "s", "i", "f", "y">>
S_news_rss == <<"n", "e", "w", "s", "_", "r", "s", "s">>
S_eonet == <<"e", "o", "n", "e", "t">>
S_fire == <<"f", "i", "r", "e">>
S_Elm_Road_closed == <<"E", "l", "m", " ", "R", "o", "a", "d", " ",
                       "c", "l", "o", "s", "e", "d">>
S_http_503 == <<"5", "0", "3">>

\* The configured locations (config/locations.yaml: ids are unique).
Locs == {S_home, S_work}

----------------------------------------------------------------------------
(* signals.py: SignalsEngine *)

\* RollingBaseline() as defaultdict(RollingBaseline) builds it: window = 12.
DefaultWindow == 12

NoSurge == [location_id |-> <<>>, count |-> 0, baseline2 |-> 0,
            factor |-> <<0, 1>>, distinct_domains |-> 0, tripped |-> FALSE]

\* The trip condition of record_news.  news_spike_factor is the fraction
\* spike_num / spike_den and baseline2 is twice the baseline, so
\* count >= baseline * factor is 2 * spike_den * count >= baseline2 * spike_num.
TrippedStrictSpike(c, count, baseline2, distinct_domains) ==
    /\ count >= c.news_min_mentions
    /\ (baseline2 = 0 \/ 2 * c.spike_den * count > baseline2 * c.spike_num)
    /\ distinct_domains >= c.require_domains

TrippedSpikeReversed(c, count, baseline2, distinct_domains) ==
    /\ count >= c.news_min_mentions
    /\ (baseline2 = 0 \/ 2 * c.spike_den * count <= baseline2 * c.spike_num)
    /\ distinct_domains >= c.require_domains

TrippedNoDomainFloor(c, count, baseline2, distinct_domains) ==
    /\ count >= c.news_min_mentions
    /\ (baseline2 = 0 \/ 2 * c.spike_den * count >= baseline2 * c.spike_num)

Tripped(c, count, baseline2, distinct_domains) ==
    /\ count >= c.news_min_mentions
    /\ (baseline2 = 0 \/ 2 * c.spike_den * count >= baseline2 * c.spike_num)
    /\ distinct_domains >= c.require_domains

\* SignalsEngine.record_news on (baselines, confirmations):
\* [surge, baselines, confirmations] afterwards.
RecordNewsAlwaysConfirms(c, bl, conf, location_id, count, distinct_domains) ==
    LET o == Observe(bl[location_id], DefaultWindow, count)
        tripped == Tripped(c, count, o.ret, distinct_domains)
    IN  [surge |-> [location_id |-> location_id, count |-> count,
                    baseline2 |-> o.ret,
                    factor |-> IF o.ret = 0 THEN <<count, 1>> ELSE <<2 * count, o.ret>>,
                    distinct_domains |-> distinct_domains, tripped |-> tripped],
         baselines |-> [bl EXCEPT ![location_id] = o.samples],
         confirmations |-> [conf EXCEPT ![location_id] = @ \cup {S_news}]]

RecordNewsConfirmsProvider(c, bl, conf, location_id, count, distinct_domains) ==
    LET o == Observe(bl[location_id], DefaultWindow, count)
        tripped == Tripped(c, count, o.ret, distinct_domains)
    IN  [surge |-> [location_id |-> location_id, count |-> count,
                    baseline2 |-> o.ret,
                    factor |-> IF o.ret = 0 THEN <<count, 1>> ELSE <<2 * count, o.ret>>,
                    distinct_domains |-> distinct_domains, tripped |-> tripped],
         baselines |-> [bl EXCEPT ![location_id] = o.samples],
         confirmations |-> IF tripped
                           THEN [conf EXCEPT ![location_id] = @ \cup {S_news, S_news_rss}]
                           ELSE conf]

RecordNewsOp(c, bl, conf, location_id, count, distinct_domains) ==
    LET o == Observe(bl[location_id], DefaultWindow, count)
        tripped == Tripped(c, count, o.ret, distinct_domains)
    IN  [surge |-> [location_id |-> location_id, count |-> count,
                    baseline2 |-> o.ret,
                    factor |-> IF o.ret = 0 THEN <<count, 1>> ELSE <<2 * count, o.ret>>,
                    distinct_domains |-> distinct_domains, tripped |-> tripped],
         baselines |-> [bl EXCEPT ![location_id] = o.samples],
         confirmations |-> IF tripped
                           THEN [conf EXCEPT ![location_id] = @ \cup {S_news}]
                           ELSE conf]

\* SignalsEngine.record_confirmation
RecordConfirmationEverywhere(conf, location_id, source_name) ==
    [l \in DOMAIN conf |-> conf[l] \cup {source_name}]

RecordConfirmationOp(conf, location_id, source_name) ==
    [conf EXCEPT ![location_id] = @ \cup {source_name}]

\* SignalsEngine.hysteria_active
HysteriaActiveStrict(c, conf, location_id) ==
    Cardinality(conf[location_id]) > c.hysteria_sources

HysteriaActive(c, conf, location_id) ==
    Cardinality(conf[location_id]) >= c.hysteria_sources

\* SignalsEngine.reset_run_state: confirmations.clear()
ResetRunStateKeepsSurge(conf) == [l \in DOMAIN conf |-> conf[l] \cap {S_news}]

ResetRunStateOp(conf) == [l \in DOMAIN conf |-> {}]

----------------------------------------------------------------------------
(* Python dicts are functions; d[k] = v and d.pop(k, None). *)

EmptyDict == [x \in {} |-> <<>>]

Put(d, k, v) == [x \in DOMAIN d \cup {k} |-> IF x = k THEN v ELSE d[x]]

Pop(d, k) == [x \in DOMAIN d \ {k} |-> d[x]]

\* sep.join(parts)
RECURSIVE Join(_, _)
Join(sep, parts) ==
    IF parts = <<>> THEN <<>>
    ELSE IF Len(parts) = 1 THEN parts[1]
    ELSE parts[1] \o sep \o Join(sep, Tail(parts))

----------------------------------------------------------------------------
(* state.py: timestamps.  The clock counts minutes; a timestamp string is
   the zero-padded two-digit decimal rendering of the minute count, as
   strftime(ISO_FORMAT) renders each field of a datetime, and strptime reads
   the digits back. *)

Digits == <<"0", "1", "2", "3", "4", "5", "6", "7", "8", "9">>

DigitValue(ch) == (CHOOSE i \in 1..Len(Digits) : Digits[i] = ch) - 1

\* datetime.strftime(ISO_FORMAT)
Strftime(t) == <<Digits[((t \div 10) % 10) + 1], Digits[(t % 10) + 1]>>

\* datetime.strptime(s, ISO_FORMAT).replace(tzinfo=timezone.utc)
Strptime(s) == 10 * DigitValue(s[1]) + DigitValue(s[2])

----------------------------------------------------------------------------
(* state.py: AlertKey and StateStore *)

\* AlertKey.composite: "/".join([location_id, provider, external_id, category])
Composite(key) ==
    Join(<<"/">>, <<key.location_id, key.provider, key.external_id, key.category>>)

EmptyStore == [seen |-> EmptyDict, cooldowns |-> EmptyDict, metadata |-> EmptyDict]

\* The file at StateStore.path: whether it exists and, if so, its document.
\* complete: the text of the file is a whole JSON document.
NoFile == [exists |-> FALSE, complete |-> FALSE, seen |-> {}, cooldowns |-> {},
           metadata |-> {}]

\* json.dump of the three maps: a JSON object is its set of members.
Members(d) == {<<k, d[k]>> : k \in DOMAIN d}

JsonDump(st) ==
    [exists |-> TRUE, complete |-> TRUE, seen |-> Members(st.seen),
     cooldowns |-> Members(st.cooldowns), metadata |-> Members(st.metadata)]

\* json.load of an object: the dict of its members.
FromMembers(m) ==
    [k \in {p[1] : p \in m} |-> (CHOOSE p \in m : p[1] = k)[2]]

\* StateStore.load: an absent file is the empty payload.
LoadNeverReadsFile(f) == EmptyStore

Load(f) ==
    IF ~f.exists THEN EmptyStore
    ELSE [seen |-> FromMembers(f.seen), cooldowns |-> FromMembers(f.cooldowns),
          metadata |-> FromMembers(f.metadata)]

\* json.load of a file that holds no whole document raises JSONDecodeError.
Torn(f) == f.exists /\ ~f.complete

S_JSONDecodeError == <<"J", "S", "O", "N", "D", "e", "c", "o", "d", "e", "E", "r", "r", "o", "r">>

\* StateStore.save: the document written to path.
Save(st) == JsonDump(st)

\* StateStore.save stopped between path.open("w"), which empties the file,
\* and the end of json.dump: nothing has reached the file, or the text up to
\* some flush has (sort_keys puts "cooldowns" first).
SaveInterrupted(st) ==
    { [exists |-> TRUE, complete |-> FALSE, seen |-> {}, cooldowns |-> {},
       metadata |-> {}],
      [exists |-> TRUE, complete |-> FALSE, seen |-> {},
       cooldowns |-> Members(st.cooldowns), metadata |-> {}] }

\* StateStore.mark_seen
MarkSeen(st, key, t) == [st EXCEPT !.seen = Put(@, Composite(key), Strftime(t))]

\* StateStore.is_seen
IsSeen(st, key) == Composite(key) \in DOMAIN st.seen

\* StateStore.start_cooldown
StartCooldown(st, bucket, minutes, t) ==
    [st EXCEPT !.cooldowns = Put(@, bucket, Strftime(t + minutes))]

\* StateStore.in_cooldown: [ret |-> the returned flag, state |-> the store
\* afterwards]; a bucket whose expiry has passed is popped.
InCooldownExpiresLate(st, bucket, t) ==
    IF bucket \notin DOMAIN st.cooldowns \/ st.cooldowns[bucket] = <<>>
    THEN [ret |-> FALSE, state |-> st]
    ELSE IF t > Strptime(st.cooldowns[bucket])
    THEN [ret |-> FALSE, state |-> [st EXCEPT !.cooldowns = Pop(@, bucket)]]
    ELSE [ret |-> TRUE, state |-> st]

InCooldownKeepsExpired(st, bucket, t) ==
    IF bucket \notin DOMAIN st.cooldowns \/ st.cooldowns[bucket] = <<>>
    THEN [ret |-> FALSE, state |-> st]
    ELSE IF t >= Strptime(st.cooldowns[bucket])
    THEN [ret |-> FALSE, state |-> st]
    ELSE [ret |-> TRUE, state |-> st]

InCooldown(st, bucket, t) ==
    IF bucket \notin DOMAIN st.cooldowns \/ st.cooldowns[bucket] = <<>>
    THEN [ret |-> FALSE, state |-> st]
    ELSE IF t >= Strptime(st.cooldowns[bucket])
    THEN [ret |-> FALSE, state |-> [st EXCEPT !.cooldowns = Pop(@, bucket)]]
    ELSE [ret |-> TRUE, state |-> st]

\* StateStore.get_metadata
GetMetadata(st, key, default) ==
    IF key \in DOMAIN st.metadata THEN st.metadata[key] ELSE default

\* StateStore.set_metadata
SetMetadata(st, key, value) == [st EXCEPT !.metadata = Put(@, key, value)]

----------------------------------------------------------------------------
(* prepper_alerts.py: the decision functions *)

\* body[:5000]
BodyLimit == 5000

NoDecision == [some |-> FALSE, provider |-> <<>>, location_id |-> <<>>,
               title |-> <<>>, body |-> <<>>, priority |-> 0, url |-> <<>>,
               category |-> <<>>, reason |-> <<>>]

\* PrepperAlertsRunner._nws_impacts_location
NwsImpactsEverywhere(location_payload, keywords, item) == TRUE

NwsImpactsLocation(location_payload, keywords, item) ==
    LET area_desc == Lower(NormalizeAscii(item.area_desc))
        headline == Lower(NormalizeAscii(item.headline))
        search_text == area_desc \o <<" ">> \o headline
        tokens == {Lower(NormalizeAscii(location_payload.label)),
                   Lower(location_payload.id)}
                  \cup {Lower(term) : term \in Range(keywords.geo_terms)}
    IN  IF IsBlank(search_text) THEN TRUE
        ELSE \E token \in tokens : token # <<>> /\ Contains(token, search_text)

\* _decision_from_nws, lines 334-337: the two early returns.
NwsSuppressedIgnoresHysteria(is_watch, severity, hysteria_active, severe) ==
    \/ is_watch
    \/ (severity \notin severe /\ ~hysteria_active)

NwsSuppressed(is_watch, severity, hysteria_active, severe) ==
    \/ (is_watch /\ ~hysteria_active)
    \/ (severity \notin severe /\ ~hysteria_active)

\* _decision_from_nws, line 339
NwsPriorityNeedsBoth(severity, urgency, severe) ==
    IF severity \in severe /\ urgency = S_immediate THEN 2 ELSE 1

NwsPriority(severity, urgency, severe) ==
    IF severity \in severe \/ urgency = S_immediate THEN 2 ELSE 1

\* PrepperAlertsRunner._decision_from_nws
DecisionFromNws(location_payload, keywords, item, hysteria_active, severe) ==
    IF ~NwsImpactsLocation(location_payload, keywords, item) THEN NoDecision
    ELSE LET severity == Title(item.severity)
             event == Or(item.event, S_NWS_Alert)
             is_watch == \/ Contains(S_watch, Lower(event))
                         \/ Lower(severity) \in {S_minor, S_moderate}
             urgency == Lower(item.urgency)
         IN  IF NwsSuppressed(is_watch, severity, hysteria_active, severe)
             THEN NoDecision
             ELSE [some |-> TRUE,
                   provider |-> S_nws,
                   location_id |-> location_payload.id,
                   title |-> <<"[">> \o Upper(location_payload.id) \o <<"]", " ">> \o event,
                   body |-> Truncate(NormalizeAscii(Or(item.description, item.headline)),
                                     BodyLimit),
                   priority |-> NwsPriority(severity, urgency, severe),
                   url |-> item.uri,
                   category |-> S_nws,
                   reason |-> Join(<<";">>,
                                   <<S_severity_eq \o severity>>
                                   \o (IF hysteria_active THEN <<S_hysteria>> ELSE <<>>))]

\* f"{n}" for a small non-negative int
IntStr(n) ==
    IF n < 10 THEN <<Digits[n + 1]>>
    ELSE <<Digits[((n \div 10) % 10) + 1], Digits[(n % 10) + 1]>>

\* A magnitude is kept in tenths; NoMag is a missing (None) "mag".
NoMag == -1

\* item.get("mag") or 0
MagOrZero(mag) == IF mag = NoMag THEN 0 ELSE mag

\* f"{mag}": the int 0 of "or 0" prints as "0", a float with one decimal.
MagStr(mag) ==
    IF MagOrZero(mag) = 0 THEN <<"0">>
    ELSE IntStr(mag \div 10) \o <<".">> \o <<Digits[(mag % 10) + 1]>>

\* overrides.get(name, default), line 358-360
QuakeThreshold(c, location_id, name) ==
    IF location_id \in DOMAIN c.overrides /\ name \in DOMAIN c.overrides[location_id]
    THEN c.overrides[location_id][name]
    ELSE c.quake_defaults[name]

\* _decision_from_usgs, line 363
UsgsPriorityStrict(mag, emergency) == IF mag > emergency THEN 2 ELSE 1

UsgsPriority(mag, emergency) == IF mag >= emergency THEN 2 ELSE 1

\* PrepperAlertsRunner._decision_from_usgs
DecisionFromUsgs(c, location_id, item) ==
    LET mag == MagOrZero(item.mag)
        normal == QuakeThreshold(c, location_id, "quake_min_mag_normal")
        emergency == QuakeThreshold(c, location_id, "quake_min_mag_emergency")
    IN  IF mag < normal THEN NoDecision
        ELSE [some |-> TRUE,
              provider |-> S_usgs,
              location_id |-> location_id,
              title |-> <<"[">> \o Upper(location_id) \o <<"]", " ", "M">>
                        \o MagStr(item.mag) \o <<" ">> \o S_earthquake,
              body |-> NormalizeAscii(Or(item.place, S_USGS_event)),
              priority |-> UsgsPriority(mag, emergency),
              url |-> item.url,
              category |-> S_earthquake,
              reason |-> S_mag_eq \o MagStr(item.mag)]

----------------------------------------------------------------------------
(* alerting.py: the two delivery clients and AlertDispatcher.  A send is
   given the answer of the remote service: "ok", "http_error" (an error
   status) or "raise" (the connection fails with an exception that the
   client does not catch).  Each send yields the value returned, whether the
   message was accepted by the service, and whether an exception left the
   call. *)

NoSend == [ret |-> FALSE, accepted |-> FALSE, raised |-> FALSE]

\* PushoverClient.send
PushoverSendInDryRun(has_credentials, dry_run, answer) ==
    IF ~has_credentials THEN NoSend
    ELSE IF answer = "raise" THEN [NoSend EXCEPT !.raised = TRUE]
    ELSE IF answer = "http_error" THEN NoSend
    ELSE [ret |-> TRUE, accepted |-> TRUE, raised |-> FALSE]

PushoverSend(has_credentials, dry_run, answer) ==
    IF ~has_credentials THEN NoSend
    ELSE IF dry_run THEN [NoSend EXCEPT !.ret = TRUE]
    ELSE IF answer = "raise" THEN [NoSend EXCEPT !.raised = TRUE]
    ELSE IF answer = "http_error" THEN NoSend
    ELSE [ret |-> TRUE, accepted |-> TRUE, raised |-> FALSE]

\* EmailClient.send: smtplib raises on any failure.
EmailSend(has_credentials, dry_run, answer) ==
    IF ~has_credentials THEN NoSend
    ELSE IF dry_run THEN [NoSend EXCEPT !.ret = TRUE]
    ELSE IF answer = "ok" THEN [ret |-> TRUE, accepted |-> TRUE, raised |-> FALSE]
    ELSE [NoSend EXCEPT !.raised = TRUE]

PushAnswers == {"ok", "http_error", "raise"}
EmailAnswers == {"ok", "raise"}

\* AlertDispatcher.dispatch: [raised, results, accepted, attempted]; results
\* is the map returned (when nothing is raised), accepted the set of channels
\* whose service took the message, attempted the channels whose send was
\* called.
Dispatch(c, payload, push_answer, email_answer) ==
    LET p == IF c.use_pushover /\ "pushover" \in payload.channels
             THEN PushoverSend(c.push_credentials, c.dry_run, push_answer)
             ELSE NoSend
        e == IF ~p.raised /\ c.use_email /\ "email" \in payload.channels
             THEN EmailSend(c.email_credentials, c.dry_run, email_answer)
             ELSE NoSend
    IN  [raised |-> p.raised \/ e.raised,
         results |-> [pushover |-> p.ret, email |-> e.ret],
         accepted |-> (IF p.accepted THEN {"pushover"} ELSE {})
                      \cup (IF e.accepted THEN {"email"} ELSE {}),
         attempted |-> (IF c.use_pushover /\ "pushover" \in payload.channels
                        THEN {"pushover"} ELSE {})
                       \cup (IF ~p.raised /\ c.use_email /\ "email" \in payload.channels
                             THEN {"email"} ELSE {})]

----------------------------------------------------------------------------
(* prepper_alerts.py: RunSummary *)

NoLocationSummary == [sources |-> EmptyDict, alerts |-> <<>>, surges |-> <<>>]

\* self.locations.setdefault(location_id, LocationSummary())
SetDefault(sm, location_id) ==
    IF location_id \in DOMAIN sm THEN sm ELSE Put(sm, location_id, NoLocationSummary)

\* RunSummary.record_source
RecordSource(sm, result) ==
    [SetDefault(sm, result.location_id) EXCEPT ![result.location_id].sources =
        Put(@, result.provider,
            [ok |-> result.ok, count |-> Len(result.items),
             error |-> result.error, latency_ms |-> result.latency_ms])]

\* RunSummary.record_alert
RecordAlert(sm, decision, channels) ==
    [SetDefault(sm, decision.location_id) EXCEPT ![decision.location_id].alerts =
        Append(@, [provider |-> decision.provider, title |-> decision.title,
                   priority |-> decision.priority, reason |-> decision.reason,
                   channels |-> channels])]

\* RunSummary.record_surge
RecordSurge(sm, s) ==
    [SetDefault(sm, s.location_id) EXCEPT ![s.location_id].surges =
        Append(@, [count |-> s.count, baseline2 |-> s.baseline2,
                   factor |-> s.factor, domains |-> s.distinct_domains,
                   tripped |-> s.tripped])]

----------------------------------------------------------------------------
(* prepper_alerts.py: _emit_if_needed *)

\* f"{decision.location_id}:{decision.category}:{decision.priority}"
CooldownBucketNoPriority(decision) ==
    Join(<<":">>, <<decision.location_id, decision.category>>)

CooldownBucket(decision) ==
    Join(<<":">>, <<decision.location_id, decision.category, IntStr(decision.priority)>>)

\* AlertKey(location_id, provider, external_id=decision.title, category)
KeyOf(decision) ==
    [location_id |-> decision.location_id, provider |-> decision.provider,
     external_id |-> decision.title, category |-> decision.category]

\* AlertPayload(...), lines 386-392
PayloadOf(decision) ==
    [title |-> decision.title,
     body |-> decision.body \o <<"\n">> \o S_Reason \o decision.reason,
     priority |-> decision.priority, url |-> decision.url,
     location_id |-> decision.location_id, channels |-> {"email", "pushover"}]

\* PrepperAlertsRunner._emit_if_needed at time t: the outcome ("duplicate",
\* "cooldown", "raised" when dispatch raises, "dispatched"), the store and
\* the summary afterwards, and the channels that accepted the message.
EmitWithoutSeenCheck(c, st, sm, decision, t, push_answer, email_answer) ==
    LET cd == InCooldown(st, CooldownBucket(decision), t)
        d == Dispatch(c, PayloadOf(decision), push_answer, email_answer)
    IN  IF cd.ret
        THEN [outcome |-> "cooldown", state |-> cd.state, summary |-> sm, accepted |-> {}]
        ELSE IF d.raised
        THEN [outcome |-> "raised", state |-> cd.state, summary |-> sm,
              accepted |-> d.accepted]
        ELSE [outcome |-> "dispatched",
              state |-> StartCooldown(MarkSeen(cd.state, KeyOf(decision), t),
                                      CooldownBucket(decision), c.cooldown_minutes, t),
              summary |-> RecordAlert(sm, decision, d.results),
              accepted |-> d.accepted]

EmitBucketWithoutPriority(c, st, sm, decision, t, push_answer, email_answer) ==
    LET cd == InCooldown(st, CooldownBucketNoPriority(decision), t)
        d == Dispatch(c, PayloadOf(decision), push_answer, email_answer)
    IN  IF IsSeen(st, KeyOf(decision))
        THEN [outcome |-> "duplicate", state |-> st, summary |-> sm, accepted |-> {}]
        ELSE IF cd.ret
        THEN [outcome |-> "cooldown", state |-> cd.state, summary |-> sm, accepted |-> {}]
        ELSE IF d.raised
        THEN [outcome |-> "raised", state |-> cd.state, summary |-> sm,
              accepted |-> d.accepted]
        ELSE [outcome |-> "dispatched",
              state |-> StartCooldown(MarkSeen(cd.state, KeyOf(decision), t),
                                      CooldownBucketNoPriority(decision),
                                      c.cooldown_minutes, t),
              summary |-> RecordAlert(sm, decision, d.results),
              accepted |-> d.accepted]

EmitMarksSuppressed(c, st, sm, decision, t, push_answer, email_answer) ==
    LET cd == InCooldown(st, CooldownBucket(decision), t)
        d == Dispatch(c, PayloadOf(decision), push_answer, email_answer)
    IN  IF IsSeen(st, KeyOf(decision))
        THEN [outcome |-> "duplicate", state |-> st, summary |-> sm, accepted |-> {}]
        ELSE IF cd.ret
        THEN [outcome |-> "cooldown", state |-> MarkSeen(cd.state, KeyOf(decision), t),
              summary |-> sm, accepted |-> {}]
        ELSE IF d.raised
        THEN [outcome |-> "raised", state |-> cd.state, summary |-> sm,
              accepted |-> d.accepted]
        ELSE [outcome |-> "dispatched",
              state |-> StartCooldown(MarkSeen(cd.state, KeyOf(decision), t),
                                      CooldownBucket(decision), c.cooldown_minutes, t),
              summary |-> RecordAlert(sm, decision, d.results),
              accepted |-> d.accepted]

EmitIfNeeded(c, st, sm, decision, t, push_answer, email_answer) ==
    LET cd == InCooldown(st, CooldownBucket(decision), t)
        d == Dispatch(c, PayloadOf(decision), push_answer, email_answer)
    IN  IF IsSeen(st, KeyOf(decision))
        THEN [outcome |-> "duplicate", state |-> st, summary |-> sm, accepted |-> {}]
        ELSE IF cd.ret
        THEN [outcome |-> "cooldown", state |-> cd.state, summary |-> sm, accepted |-> {}]
        ELSE IF d.raised
        THEN [outcome |-> "raised", state |-> cd.state, summary |-> sm,
              accepted |-> d.accepted]
        ELSE [outcome |-> "dispatched",
              state |-> StartCooldown(MarkSeen(cd.state, KeyOf(decision), t),
                                      CooldownBucket(decision), c.cooldown_minutes, t),
              summary |-> RecordAlert(sm, decision, d.results),
              accepted |-> d.accepted]

----------------------------------------------------------------------------
(* The optional classifier path of run(): fetch.py, llm.py and lines
   215-277 of prepper_alerts.py.  A news item is a record title, summary,
   content, domain, link, category, reason, severity; a field that is
   absent is <<>> (severity: 0). *)

\* items[:n]
Take(items, n) == SubSeq(items, 1, Min(n, Len(items)))

Max(a, b) == IF a >= b THEN a ELSE b

\* fetch.enrich_items_with_fulltext: answer is "raise", or the text that
\* fetch_article_text returns for every link ("" when the page is not read).
Enrich(items, allow_domains, max_items, max_chars, answer) ==
    LET batch == Take(items, Max(1, max_items))
        allowed == {Lower(d) : d \in allow_domains}
        barred(item) == /\ allowed # {}
                        /\ item.domain # <<>>
                        /\ Lower(item.domain) \notin allowed
    IN  [k \in 1..Len(batch) |->
            IF barred(batch[k]) \/ batch[k].link = <<>> \/ answer = <<>>
            THEN batch[k]
            ELSE [batch[k] EXCEPT !.content = Truncate(answer, max_chars)]]

\* run(), lines 216-226
Enriched(items, allow_domains, max_items, max_chars, answer) ==
    IF answer.raised THEN Take(items, max_items)
    ELSE Enrich(items, allow_domains, max_items, max_chars, answer.text)

\* llm.classify_news_items, lines 93-102: zip(batch, results), keeping the
\* items flagged relevant whose severity converts to int.
RECURSIVE ZipRelevant(_, _)
ZipRelevant(batch, results) ==
    IF batch = <<>> \/ results = <<>> THEN <<>>
    ELSE LET src == Head(batch)
             res == Head(results)
             rest == ZipRelevant(Tail(batch), Tail(results))
         IN  IF res.relevant /\ res.severity_is_int
             THEN <<[src EXCEPT !.category = Or(res.category, S_general),
                                !.reason = res.reason,
                                !.severity = IF res.severity = 0 THEN 1
                                             ELSE res.severity]>> \o rest
             ELSE rest

\* llm.classify_news_items: answer.raised when the call raises, else
\* answer.valid_json and answer.results as the model's reply parses.
ClassifyNewsItems(items, max_items, answer) ==
    IF items = <<>> \/ ~answer.valid_json THEN <<>>
    ELSE ZipRelevant(Take(items, Max(1, max_items)), answer.results)

\* run(), lines 227-236: an exception of classify_news_items gives no items.
FilteredFailsOpen(enriched, max_items, llm_answer) ==
    IF llm_answer.raised
    THEN [k \in 1..Len(enriched) |-> [enriched[k] EXCEPT !.severity = 3]]
    ELSE ClassifyNewsItems(enriched, max_items, llm_answer)

Filtered(enriched, max_items, llm_answer) ==
    IF llm_answer.raised THEN <<>>
    ELSE ClassifyNewsItems(enriched, max_items, llm_answer)

\* PrepperAlertsRunner._geo_specific_match
GeoSpecificMatch(item, keywords) ==
    LET meta == keywords.metadata
        city == Lower(meta.city)
        county == Lower(meta.county)
        roads == {Lower(r) : r \in Range(keywords.roads)}
        text == Lower(Join(<<" ">>, <<item.title, item.summary, item.content>>))
        specific_tokens == ({city, county} \cup roads) \ {<<>>}
    IN  IF specific_tokens = {} THEN TRUE
        ELSE \E tok \in specific_tokens : Contains(tok, text)

\* run(), line 240: int(i.get("severity") or 1)
SevOf(i) == IF i.severity = 0 THEN 1 ELSE i.severity

\* run(), lines 238-245: the post-filter over the classifier's results
AcceptedIgnoresLocality(filtered, keywords, confirm_min_severity) ==
    SelectSeq(filtered, LAMBDA i : SevOf(i) >= confirm_min_severity)

Accepted(filtered, keywords, confirm_min_severity) ==
    SelectSeq(filtered, LAMBDA i : /\ SevOf(i) >= confirm_min_severity
                                   /\ GeoSpecificMatch(i, keywords))

\* run(), lines 263-276: the decision built for an accepted item
LlmDecision(location_id, i) ==
    [some |-> TRUE,
     provider |-> S_llm_news,
     location_id |-> location_id,
     title |-> <<"[">> \o Upper(location_id) \o <<"]", " ">> \o i.title,
     body |-> Truncate(NormalizeAscii(Or(i.content, Or(i.summary, i.title))), BodyLimit),
     priority |-> IF SevOf(i) >= 3 THEN 2 ELSE 1,
     url |-> i.link,
     category |-> S_news,
     reason |-> S_llm_colon \o i.category \o S_sev_eq \o IntStr(SevOf(i))
                \o <<";", " ">> \o i.reason]

----------------------------------------------------------------------------
(* Inputs tried, and the resting value of each component: a specification
   that exercises one component leaves the others at rest. *)

\* Constructor arguments tried: the ones of tests/test_signals.py
\* (3, 2.0, 2, 2) and a second set (1, 1.5, 1, 1).
SigConfigs ==
    { [news_min_mentions |-> 3, spike_num |-> 2, spike_den |-> 1,
       require_domains |-> 2, hysteria_sources |-> 2],
      [news_min_mentions |-> 1, spike_num |-> 3, spike_den |-> 2,
       require_domains |-> 1, hysteria_sources |-> 1] }

NewsCounts == {0, 2, 3, 6}
DomainCounts == {1, 3}
ConfirmNames == {S_gdelt, S_llm_news}

\* StateStore inputs: the key and bucket of tests/test_state.py, a second
\* bucket, and two keys whose fields hold the separator.
S_bucket1 == <<"h", "o", "m", "e", ":", "n", "w", "s", ":", "1">>
S_bucket2 == <<"h", "o", "m", "e", ":", "n", "w", "s", ":", "2">>

KeyTest == [location_id |-> S_home, provider |-> S_nws,
            external_id |-> S_abc, category |-> S_nws]
KeySlashInId == [location_id |-> S_home, provider |-> S_nws,
                 external_id |-> <<"a", "/", "b">>, category |-> <<"c">>]
KeySlashInCategory == [location_id |-> S_home, provider |-> S_nws,
                       external_id |-> <<"a">>, category |-> <<"b", "/", "c">>]

StoreKeys == {KeyTest, KeySlashInId, KeySlashInCategory}
StoreBuckets == {S_bucket1, S_bucket2}
CooldownMinutes == {1, 2}
MetadataKeys == {<<"k">>}
MetadataValues == {<<"v">>, <<"w">>}

NoRet == [bucket |-> <<>>, value |-> FALSE]

StoreIdle ==
    /\ state = EmptyStore
    /\ file = NoFile
    /\ now = 0
    /\ st_ret = NoRet
    /\ st_ops = 0
    /\ marked = {}
    /\ started = {}

\* The location and keywords _decision_from_nws is tried with (an entry of
\* config/locations.yaml and of config/keywords.yaml).
HomePayload == [id |-> S_home, label |-> S_Cafe_accent]
HomeKeywords ==
    [geo_terms |-> <<S_elm>>, roads |-> <<>>,
     metadata |-> [city |-> S_Elm, county |-> <<>>, state |-> S_Ohio, state_code |-> S_OH]]

\* Items of the official-alert feed (sources/nws.py); a missing field is <<>>.
NwsSeverities == {S_Extreme, S_Severe, S_severe, S_Moderate, S_MINOR, S_Unknown, <<>>}
NwsEvents == {S_Tornado_Warning, S_Flood_Watch, <<>>}
NwsUrgencies == {S_Immediate, S_Expected, <<>>}
NwsAreas == {S_Elm_County, S_Oak_County, <<>>}
NwsHeadlines == {S_Near_Cafe, <<>>}

NwsItems ==
    [event : NwsEvents, severity : NwsSeverities, urgency : NwsUrgencies,
     headline : NwsHeadlines, description : {<<>>}, area_desc : NwsAreas,
     uri : {S_uri}]

\* thresholds.nws_severity_emergency of config/settings.yaml
SevereSets == {{S_Extreme, S_Severe}, {S_Extreme}}

NwsIdle ==
    /\ severe_thresholds = {S_Extreme, S_Severe}
    /\ nws_item = CHOOSE i \in NwsItems : TRUE
    /\ nws_hysteria = FALSE
    /\ nws_out = NoDecision
    /\ nws_pc = "idle"

RbIdle ==
    /\ rb_window = 1
    /\ rb_samples = <<>>
    /\ rb_ret = 0
    /\ rb_calls = <<>>

SigIdle ==
    /\ cfg = CHOOSE c \in SigConfigs : c.news_min_mentions = 3
    /\ baselines = [l \in Locs |-> <<>>]
    /\ confirmations = [l \in Locs |-> {}]
    /\ surge = NoSurge
    /\ sig_log = <<>>

\* Locations of config/locations.yaml and their entries in
\* config/keywords.yaml; "work" has no entry, so its keywords are {} and
\* every keywords.get(...) yields its default.
WorkPayload == [id |-> S_work, label |-> S_Office]
NoKeywords ==
    [geo_terms |-> <<>>, roads |-> <<>>,
     metadata |-> [city |-> <<>>, county |-> <<>>, state |-> <<>>, state_code |-> <<>>]]

KeywordsOf(location_id) == IF location_id = S_home THEN HomeKeywords ELSE NoKeywords

\* Settings, environment switches and credentials of a runner: a live
\* configuration with the classifier off (the default environment), and one
\* with the classifier on and e-mail switched off.
RunConfigLive ==
    [dry_run |-> FALSE, use_pushover |-> TRUE, use_email |-> TRUE,
     push_credentials |-> TRUE, email_credentials |-> TRUE,
     cooldown_minutes |-> 1,
     llm_enabled |-> FALSE, llm_emit_alerts |-> FALSE,
     llm_min_severity |-> 3, llm_confirm_min_severity |-> 2,
     llm_max_items |-> 10, llm_max_chars |-> 1000, allow_domains |-> {},
     quake_defaults |-> [quake_min_mag_normal |-> 30, quake_min_mag_emergency |-> 60],
     overrides |-> EmptyDict]

RunConfigClassifier ==
    [dry_run |-> FALSE, use_pushover |-> TRUE, use_email |-> FALSE,
     push_credentials |-> TRUE, email_credentials |-> FALSE,
     cooldown_minutes |-> 2,
     llm_enabled |-> TRUE, llm_emit_alerts |-> TRUE,
     llm_min_severity |-> 3, llm_confirm_min_severity |-> 2,
     llm_max_items |-> 2, llm_max_chars |-> 1000, allow_domains |-> {S_a_com},
     quake_defaults |-> [quake_min_mag_normal |-> 30, quake_min_mag_emergency |-> 60],
     overrides |-> Put(EmptyDict, S_home, [quake_min_mag_emergency |-> 45])]

RunConfigs == {RunConfigLive, RunConfigClassifier}

\* The classifier on without alert emission (the default of LLM_EMIT_ALERTS),
\* and with the emission minimum lowered to the confirmation minimum.
RunConfigConfirmOnly == [RunConfigClassifier EXCEPT !.llm_emit_alerts = FALSE]
RunConfigEmitWatch == [RunConfigClassifier EXCEPT !.llm_min_severity = 2]

\* A dry run (--dry-run, or testing.dry_run of config/settings.yaml) with
\* both channels switched on and their credentials present.
RunConfigDry ==
    [RunConfigClassifier EXCEPT !.dry_run = TRUE, !.use_email = TRUE,
                                !.email_credentials = TRUE]

\* What a source's fetch can do: raise, or return a SourceResult.
FetchRaises == [raised |-> TRUE, ok |-> FALSE, items |-> <<>>, error |-> S_boom,
                latency_ms |-> 0]
FetchFailed == [raised |-> FALSE, ok |-> FALSE, items |-> <<>>, error |-> S_http_503,
                latency_ms |-> 1]
FetchOk(items) == [raised |-> FALSE, ok |-> TRUE, items |-> items, error |-> <<>>,
                   latency_ms |-> 1]

NwsWarning ==
    [event |-> S_Tornado_Warning, severity |-> S_Severe, urgency |-> S_Immediate,
     headline |-> <<>>, description |-> <<>>, area_desc |-> S_Elm_County, uri |-> S_uri]
NwsWarningAnywhere == [NwsWarning EXCEPT !.area_desc = <<>>]
NwsWatch ==
    [event |-> S_Flood_Watch, severity |-> S_Moderate, urgency |-> S_Expected,
     headline |-> <<>>, description |-> <<>>, area_desc |-> S_Elm_County, uri |-> S_uri]

Quake45 == [mag |-> 45, place |-> S_Ohio, url |-> S_uri]

NewsFire == [title |-> S_Elm_fire, summary |-> <<>>, content |-> <<>>,
             domain |-> S_a_com, link |-> S_u1,
             category |-> <<>>, reason |-> <<>>, severity |-> 0]
NewsState == [NewsFire EXCEPT !.title = S_Ohio_news, !.domain = S_b_com, !.link = S_u2]
NewsSports == [NewsFire EXCEPT !.title = S_Sports, !.domain = <<>>, !.link = <<>>]

\* run() polls self.sources in the order of the dict _build_sources returns;
\* the tests put other dicts in its place.
SourceOrder == <<S_nws, S_usgs, S_news_rss, S_eonet>>
NewsFirstOrder == <<S_news_rss, S_eonet, S_usgs, S_nws>>

\* The answers tried for each source: the "full" menu for a single run over
\* one location, the "short" one for repeated runs over two locations.
FetchMenu(menu, provider) ==
    IF menu = "full"
    THEN CASE provider = S_nws ->
                {FetchRaises, FetchFailed, FetchOk(<<>>), FetchOk(<<NwsWarning>>),
                 FetchOk(<<NwsWatch, NwsWarningAnywhere>>)}
           [] provider = S_usgs -> {FetchFailed, FetchOk(<<>>), FetchOk(<<Quake45>>)}
           [] provider = S_news_rss ->
                {FetchFailed, FetchOk(<<>>), FetchOk(<<NewsFire, NewsState, NewsSports>>)}
           [] OTHER -> {FetchRaises, FetchOk(<<>>)}
    ELSE CASE provider = S_nws -> {FetchRaises, FetchOk(<<NwsWarningAnywhere>>)}
           [] OTHER -> {FetchOk(<<>>)}

\* The answers of the article fetcher and of the classifier.
EnrichAnswers == {[raised |-> TRUE, text |-> <<>>], [raised |-> FALSE, text |-> <<>>],
                  [raised |-> FALSE, text |-> S_Elm_Road_closed]}

VerdictNo == [relevant |-> FALSE, category |-> <<>>, reason |-> <<>>,
              severity |-> 0, severity_is_int |-> TRUE]
VerdictWarning == [relevant |-> TRUE, category |-> S_fire, reason |-> <<>>,
                   severity |-> 3, severity_is_int |-> TRUE]
VerdictInfo == [VerdictWarning EXCEPT !.severity = 1]
VerdictBadSeverity == [VerdictWarning EXCEPT !.severity_is_int = FALSE]
VerdictWatch == [VerdictWarning EXCEPT !.severity = 2]

LlmAnswers ==
    {[raised |-> TRUE, valid_json |-> FALSE, results |-> <<>>],
     [raised |-> FALSE, valid_json |-> FALSE, results |-> <<>>],
     [raised |-> FALSE, valid_json |-> TRUE, results |-> <<VerdictWarning, VerdictWarning>>],
     [raised |-> FALSE, valid_json |-> TRUE, results |-> <<VerdictInfo, VerdictBadSeverity>>],
     [raised |-> FALSE, valid_json |-> TRUE, results |-> <<VerdictWatch, VerdictWarning>>],
     [raised |-> FALSE, valid_json |-> TRUE, results |-> <<VerdictNo>>]}

\* The configured locations and what a run is tried with.
ScenarioOneLocation ==
    [locations |-> <<HomePayload>>, run_limit |-> 1, menu |-> "full", order |-> SourceOrder]
ScenarioNewsFirst == [ScenarioOneLocation EXCEPT !.order = NewsFirstOrder]
ScenarioNoKeywords == [ScenarioOneLocation EXCEPT !.locations = <<WorkPayload>>]
ScenarioRepeated ==
    [locations |-> <<HomePayload, WorkPayload>>, run_limit |-> MaxRuns, menu |-> "short",
     order |-> SourceOrder]

\* Decisions _emit_if_needed is called with directly, each one returned by a
\* decision builder of the runner: a warning for "home", the same event at
\* priority 1 (same AlertKey, other bucket), another event at priority 2
\* (other AlertKey, same bucket), an unnamed event at priority 2, the warning
\* for "work" and an earthquake.
EmitWarning == [NwsWarningAnywhere EXCEPT !.urgency = S_Expected]

EmitDecisions ==
    { DecisionFromNws(HomePayload, HomeKeywords, EmitWarning, FALSE, {S_Extreme, S_Severe}),
      DecisionFromNws(HomePayload, HomeKeywords,
                      [EmitWarning EXCEPT !.severity = S_Unknown], TRUE,
                      {S_Extreme, S_Severe}),
      DecisionFromNws(HomePayload, HomeKeywords,
                      [EmitWarning EXCEPT !.event = S_Flood_Watch], TRUE,
                      {S_Extreme, S_Severe}),
      DecisionFromNws(HomePayload, HomeKeywords,
                      [EmitWarning EXCEPT !.event = <<>>], FALSE,
                      {S_Extreme, S_Severe}),
      DecisionFromNws(WorkPayload, NoKeywords, EmitWarning, FALSE, {S_Extreme, S_Severe}),
      DecisionFromUsgs(RunConfigClassifier, S_home, Quake45) }

NoRunFile == [exists |-> FALSE, locations |-> EmptyDict]

NoEmit == [decision |-> NoDecision, outcome |-> "none", at |-> 0]

NoDispatch == [raised |-> FALSE, results |-> [pushover |-> FALSE, email |-> FALSE],
               accepted |-> {}, attempted |-> {}]

CallIdle ==
    /\ usgs_loc = S_home
    /\ usgs_item = Quake45
    /\ usgs_out = NoDecision
    /\ usgs_pc = "idle"
    /\ dsp_payload = PayloadOf(NoDecision)
    /\ dsp_push = "ok"
    /\ dsp_email = "ok"
    /\ dsp_out = NoDispatch
    /\ dsp_pc = "idle"

EmitIdle ==
    /\ rcfg = RunConfigLive
    /\ summary = EmptyDict
    /\ outbox = <<>>
    /\ dispatches = EmptyDict
    /\ completed = {}
    /\ cooling = {}
    /\ last_emit = NoEmit
    /\ emits = 0

LoopIdle ==
    /\ scenario = ScenarioOneLocation
    /\ latest_run = NoRunFile
    /\ run_pc = "idle"
    /\ loc_ix = 0
    /\ src_ix = 0
    /\ pending_nws = <<>>
    /\ pending_usgs = <<>>
    /\ rss_items = <<>>
    /\ pending_llm = <<>>
    /\ hysteria_flag = FALSE
    /\ runs = 0
    /\ raised = {}
    /\ llm_raised = {}
    /\ abort_cause = "none"

----------------------------------------------------------------------------
(* SpecSignals: one SignalsEngine, called with arbitrary arguments. *)

InitSignals ==
    /\ cfg \in SigConfigs
    /\ baselines = [l \in Locs |-> <<>>]
    /\ confirmations = [l \in Locs |-> {}]
    /\ surge = NoSurge
    /\ sig_log = <<>>
    /\ RbIdle
    /\ StoreIdle
    /\ NwsIdle
    /\ CallIdle
    /\ EmitIdle
    /\ LoopIdle

SigRecordNews(location_id, count, distinct_domains) ==
    /\ Len(sig_log) < MaxSigOps
    /\ LET r == RecordNewsOp(cfg, baselines, confirmations, location_id, count,
                             distinct_domains)
       IN  /\ surge' = r.surge
           /\ baselines' = r.baselines
           /\ confirmations' = r.confirmations
    /\ sig_log' = Append(sig_log, [op |-> "record_news", location_id |-> location_id,
                                   count |-> count, arg |-> distinct_domains])
    /\ UNCHANGED cfg
    /\ UNCHANGED allButSig

SigRecordConfirmation(location_id, source_name) ==
    /\ Len(sig_log) < MaxSigOps
    /\ confirmations' = RecordConfirmationOp(confirmations, location_id, source_name)
    /\ sig_log' = Append(sig_log, [op |-> "record_confirmation",
                                   location_id |-> location_id,
                                   count |-> 0, arg |-> source_name])
    /\ UNCHANGED <<cfg, baselines, surge>>
    /\ UNCHANGED allButSig

SigResetRunState ==
    /\ Len(sig_log) < MaxSigOps
    /\ confirmations' = ResetRunStateOp(confirmations)
    /\ sig_log' = Append(sig_log, [op |-> "reset_run_state", location_id |-> <<>>,
                                   count |-> 0, arg |-> 0])
    /\ UNCHANGED <<cfg, baselines, surge>>
    /\ UNCHANGED allButSig

NextSignals ==
    \/ \E l \in Locs, c \in NewsCounts, d \in DomainCounts : SigRecordNews(l, c, d)
    \/ \E l \in Locs, n \in ConfirmNames : SigRecordConfirmation(l, n)
    \/ SigResetRunState

SpecSignals == InitSignals /\ [][NextSignals]_vars

----------------------------------------------------------------------------
(* SpecBaseline: one RollingBaseline, observe called with arbitrary counts. *)

InitBaseline ==
    /\ rb_window \in 1..MaxWindow
    /\ rb_samples = <<>>
    /\ rb_ret = 0
    /\ rb_calls = <<>>
    /\ SigIdle
    /\ StoreIdle
    /\ NwsIdle
    /\ CallIdle
    /\ EmitIdle
    /\ LoopIdle

RbObserve(value) ==
    /\ Len(rb_calls) < MaxObserve
    /\ LET r == Observe(rb_samples, rb_window, value)
       IN  /\ rb_samples' = r.samples
           /\ rb_ret' = r.ret
    /\ rb_calls' = Append(rb_calls, value)
    /\ UNCHANGED rb_window
    /\ UNCHANGED allButRb

\* Values passed to observe: the counts 0..MaxValue (record_news passes
\* len(result.items)) and one negative value.
ObserveValues == {-1} \cup (0..MaxValue)

NextBaseline == \E value \in ObserveValues : RbObserve(value)

SpecBaseline == InitBaseline /\ [][NextBaseline]_vars

----------------------------------------------------------------------------
(* SpecStore: one StateStore and its file, called with arbitrary arguments
   while the clock advances.  StLoad is StateStore.load(path) replacing the
   store in memory, as a later run or the reload in tests/test_state.py. *)

InitStore ==
    /\ state = Load(NoFile)
    /\ file = NoFile
    /\ now = 0
    /\ st_ret = NoRet
    /\ st_ops = 0
    /\ marked = {}
    /\ started = {}
    /\ RbIdle
    /\ SigIdle
    /\ NwsIdle
    /\ CallIdle
    /\ EmitIdle
    /\ LoopIdle

StMarkSeen(key) ==
    /\ st_ops < MaxStoreOps
    /\ ~Torn(file)
    /\ state' = MarkSeen(state, key, now)
    /\ marked' = marked \cup {key}
    /\ st_ops' = st_ops + 1
    /\ UNCHANGED <<file, now, st_ret, started>>
    /\ UNCHANGED allButStore

StStartCooldown(bucket, minutes) ==
    /\ st_ops < MaxStoreOps
    /\ ~Torn(file)
    /\ state' = StartCooldown(state, bucket, minutes, now)
    /\ started' = started \cup {bucket}
    /\ st_ops' = st_ops + 1
    /\ UNCHANGED <<file, now, st_ret, marked>>
    /\ UNCHANGED allButStore

StInCooldown(bucket) ==
    /\ st_ops < MaxStoreOps
    /\ ~Torn(file)
    /\ LET r == InCooldown(state, bucket, now)
       IN  /\ state' = r.state
           /\ st_ret' = [bucket |-> bucket, value |-> r.ret]
    /\ st_ops' = st_ops + 1
    /\ UNCHANGED <<file, now, marked, started>>
    /\ UNCHANGED allButStore

StSetMetadata(key, value) ==
    /\ st_ops < MaxStoreOps
    /\ ~Torn(file)
    /\ state' = SetMetadata(state, key, value)
    /\ st_ops' = st_ops + 1
    /\ UNCHANGED <<file, now, st_ret, marked, started>>
    /\ UNCHANGED allButStore

StSave ==
    /\ st_ops < MaxStoreOps
    /\ ~Torn(file)
    /\ file' = Save(state)
    /\ st_ops' = st_ops + 1
    /\ UNCHANGED <<state, now, st_ret, marked, started>>
    /\ UNCHANGED allButStore

\* The process is stopped inside save(): no operation is called on its store
\* again, and the next process starts with StateStore.load.
StSaveStopped ==
    /\ st_ops < MaxStoreOps
    /\ ~Torn(file)
    /\ file' \in SaveInterrupted(state)
    /\ st_ops' = st_ops + 1
    /\ UNCHANGED <<state, now, st_ret, marked, started>>
    /\ UNCHANGED allButStore

StLoadWithoutExistsTest ==
    /\ st_ops < MaxStoreOps
    /\ IF Torn(file) \/ ~file.exists
       THEN /\ st_ret' = [bucket |-> S_JSONDecodeError, value |-> FALSE]
            /\ state' = state
       ELSE /\ state' = Load(file)
            /\ st_ret' = st_ret
    /\ st_ops' = st_ops + 1
    /\ UNCHANGED <<file, now, marked, started>>
    /\ UNCHANGED allButStore

StLoad ==
    /\ st_ops < MaxStoreOps
    /\ IF Torn(file)
       THEN /\ st_ret' = [bucket |-> S_JSONDecodeError, value |-> FALSE]
            /\ state' = state
       ELSE /\ state' = Load(file)
            /\ st_ret' = st_ret
    /\ st_ops' = st_ops + 1
    /\ UNCHANGED <<file, now, marked, started>>
    /\ UNCHANGED allButStore

StTick ==
    /\ now < MaxTime
    /\ now' = now + 1
    /\ UNCHANGED <<state, file, st_ret, st_ops, marked, started>>
    /\ UNCHANGED allButStore

NextStore ==
    \/ \E key \in StoreKeys : StMarkSeen(key)
    \/ \E bucket \in StoreBuckets, minutes \in CooldownMinutes :
           StStartCooldown(bucket, minutes)
    \/ \E bucket \in StoreBuckets : StInCooldown(bucket)
    \/ \E key \in MetadataKeys, value \in MetadataValues : StSetMetadata(key, value)
    \/ StSave
    \/ StSaveStopped
    \/ StLoad
    \/ StTick

SpecStore == InitStore /\ [][NextStore]_vars

----------------------------------------------------------------------------
(* SpecNws: _decision_from_nws applied once to an arbitrary item, under an
   arbitrary hysteria flag and emergency set. *)

InitNws ==
    /\ severe_thresholds \in SevereSets
    /\ nws_item \in NwsItems
    /\ nws_hysteria \in BOOLEAN
    /\ nws_out = NoDecision
    /\ nws_pc = "call"
    /\ CallIdle
    /\ RbIdle
    /\ SigIdle
    /\ StoreIdle
    /\ EmitIdle
    /\ LoopIdle

DecideNws ==
    /\ nws_pc = "call"
    /\ nws_out' = DecisionFromNws(HomePayload, HomeKeywords, nws_item, nws_hysteria,
                                  severe_thresholds)
    /\ nws_pc' = "returned"
    /\ UNCHANGED <<severe_thresholds, nws_item, nws_hysteria>>
    /\ UNCHANGED allButNws

NextNws == DecideNws

SpecNws == InitNws /\ [][NextNws]_vars

----------------------------------------------------------------------------
(* SpecUsgs: one call of _decision_from_usgs, for every configuration,
   location and item tried. *)

\* settings.per_location_overrides is Dict[str, Dict[str, float]] and is not
\* validated: no override, overrides that keep the order of the two
\* thresholds, and one that puts the emergency threshold under the normal
\* one (defaults: 3.0 and 6.0).
UsgsOverrides ==
    { EmptyDict,
      Put(EmptyDict, S_home, [quake_min_mag_emergency |-> 45]),
      Put(EmptyDict, S_home, [quake_min_mag_normal |-> 20, quake_min_mag_emergency |-> 50]),
      Put(EmptyDict, S_work, [quake_min_mag_normal |-> 50]),
      Put(EmptyDict, S_home, [quake_min_mag_emergency |-> 20]) }

UsgsConfigs == {[RunConfigLive EXCEPT !.overrides = o] : o \in UsgsOverrides}

\* Items of the earthquake feed (sources/usgs.py), magnitudes in tenths.
UsgsMags == {NoMag, 0, 19, 20, 25, 30, 45, 59, 60, 65}
UsgsItems == [mag : UsgsMags, place : {S_Ohio, <<>>}, url : {S_uri}]

InitUsgs ==
    /\ rcfg \in UsgsConfigs
    /\ usgs_loc \in Locs
    /\ usgs_item \in UsgsItems
    /\ usgs_out = NoDecision
    /\ usgs_pc = "call"
    /\ dsp_payload = PayloadOf(NoDecision)
    /\ dsp_push = "ok"
    /\ dsp_email = "ok"
    /\ dsp_out = NoDispatch
    /\ dsp_pc = "idle"
    /\ summary = EmptyDict
    /\ outbox = <<>>
    /\ dispatches = EmptyDict
    /\ completed = {}
    /\ cooling = {}
    /\ last_emit = NoEmit
    /\ emits = 0
    /\ RbIdle
    /\ SigIdle
    /\ StoreIdle
    /\ NwsIdle
    /\ LoopIdle

DecideUsgs ==
    /\ usgs_pc = "call"
    /\ usgs_out' = DecisionFromUsgs(rcfg, usgs_loc, usgs_item)
    /\ usgs_pc' = "returned"
    /\ UNCHANGED <<usgs_loc, usgs_item, dsp_payload, dsp_push, dsp_email, dsp_out, dsp_pc>>
    /\ UNCHANGED <<rbVars, sigVars, storeVars, nwsVars, emitVars, loopVars>>

NextUsgs == DecideUsgs

SpecUsgs == InitUsgs /\ [][NextUsgs]_vars

----------------------------------------------------------------------------
(* SpecDispatch: AlertDispatcher.dispatch applied once to a payload, for
   every setting of the two channels and every answer of the two services. *)

DispatchConfigs ==
    {[RunConfigLive EXCEPT !.use_pushover = up, !.use_email = ue,
                           !.push_credentials = pc, !.email_credentials = ec,
                           !.dry_run = dr] :
        up \in BOOLEAN, ue \in BOOLEAN, pc \in BOOLEAN, ec \in BOOLEAN, dr \in BOOLEAN}

DispatchPayloads ==
    {[PayloadOf(d) EXCEPT !.channels = ch] :
        d \in {DecisionFromUsgs(RunConfigLive, S_home, Quake45),
               DecisionFromNws(HomePayload, HomeKeywords, NwsWarning, FALSE,
                               {S_Extreme, S_Severe})},
        ch \in SUBSET {"email", "pushover"}}

InitDispatch ==
    /\ rcfg \in DispatchConfigs
    /\ dsp_payload \in DispatchPayloads
    /\ dsp_push \in PushAnswers
    /\ dsp_email \in EmailAnswers
    /\ dsp_out = NoDispatch
    /\ dsp_pc = "call"
    /\ usgs_loc = S_home
    /\ usgs_item = Quake45
    /\ usgs_out = NoDecision
    /\ usgs_pc = "idle"
    /\ summary = EmptyDict
    /\ outbox = <<>>
    /\ dispatches = EmptyDict
    /\ completed = {}
    /\ cooling = {}
    /\ last_emit = NoEmit
    /\ emits = 0
    /\ RbIdle
    /\ SigIdle
    /\ StoreIdle
    /\ NwsIdle
    /\ LoopIdle

\* dispatch returns its map or an exception of a send leaves it.
DoDispatch ==
    /\ dsp_pc = "call"
    /\ dsp_out' = Dispatch(rcfg, dsp_payload, dsp_push, dsp_email)
    /\ dsp_pc' = IF dsp_out'.raised THEN "raised" ELSE "returned"
    /\ UNCHANGED <<usgs_loc, usgs_item, usgs_out, usgs_pc, dsp_payload, dsp_push,
                   dsp_email>>
    /\ UNCHANGED <<rbVars, sigVars, storeVars, nwsVars, emitVars, loopVars>>

NextDispatch == DoDispatch

SpecDispatch == InitDispatch /\ [][NextDispatch]_vars


----------------------------------------------------------------------------
(* SpecEmit: _emit_if_needed called directly on one runner, with decisions
   the runner can build and every answer of the delivery services, while the
   clock advances. *)

InitEmit ==
    /\ rcfg \in RunConfigs
    /\ summary = EmptyDict
    /\ outbox = <<>>
    /\ dispatches = EmptyDict
    /\ completed = {}
    /\ cooling = {}
    /\ last_emit = NoEmit
    /\ emits = 0
    /\ RbIdle
    /\ SigIdle
    /\ StoreIdle
    /\ NwsIdle
    /\ CallIdle
    /\ LoopIdle

\* The messages that reach the services in one dispatch call.
Deliveries(decision, accepted) ==
    LET msg(ch) == [channel |-> ch, title |-> decision.title,
                    priority |-> decision.priority,
                    location_id |-> decision.location_id]
    IN  (IF "pushover" \in accepted THEN <<msg("pushover")>> ELSE <<>>)
        \o (IF "email" \in accepted THEN <<msg("email")>> ELSE <<>>)

Count(d, k) == IF k \in DOMAIN d THEN d[k] ELSE 0

\* One call of _emit_if_needed on the runner's store and summary.
EmitStep(decision, push_answer, email_answer) ==
    LET r == EmitIfNeeded(rcfg, state, summary, decision, now, push_answer, email_answer)
        k == Composite(KeyOf(decision))
    IN  /\ state' = r.state
        /\ summary' = r.summary
        /\ outbox' = outbox \o Deliveries(decision, r.accepted)
        /\ dispatches' = IF r.outcome \in {"dispatched", "raised"}
                         THEN Put(dispatches, k, Count(dispatches, k) + 1)
                         ELSE dispatches
        /\ completed' = IF r.outcome = "dispatched" THEN completed \cup {KeyOf(decision)}
                        ELSE completed
        /\ cooling' = IF r.outcome = "dispatched"
                      THEN cooling \cup {[location_id |-> decision.location_id,
                                          category |-> decision.category,
                                          priority |-> decision.priority,
                                          until |-> now + rcfg.cooldown_minutes]}
                      ELSE cooling
        /\ last_emit' = [decision |-> decision, outcome |-> r.outcome, at |-> now]

EmCall(decision, push_answer, email_answer) ==
    /\ emits < MaxEmits
    /\ EmitStep(decision, push_answer, email_answer)
    /\ emits' = emits + 1
    /\ UNCHANGED <<rcfg, file, now, st_ret, st_ops, marked, started>>
    /\ UNCHANGED <<rbVars, sigVars, nwsVars, callVars, loopVars>>

EmTick ==
    /\ now < MaxTime
    /\ now' = now + 1
    /\ UNCHANGED <<state, file, st_ret, st_ops, marked, started>>
    /\ UNCHANGED <<rbVars, sigVars, nwsVars, callVars, emitVars, loopVars>>

EmCalls ==
    \E decision \in EmitDecisions, push_answer \in PushAnswers,
       email_answer \in EmailAnswers :
        EmCall(decision, push_answer, email_answer)

NextEmit ==
    \/ EmCalls
    \/ EmTick

SpecEmit == InitEmit /\ [][NextEmit]_vars

----------------------------------------------------------------------------
(* Spec: runner processes started one after the other on the same state
   file (run_once: a new PrepperAlertsRunner, then run()).  A process stands
   at "fetch" (line 198), "classify" (215), "llm_emit" (259-277, then 278),
   "items" (281-288), "save" (290), "write" (291), "reset" (295); it is
   "done" when run() has returned and "aborted" when an exception left run()
   or the process was stopped. *)

Scenarios == {ScenarioOneLocation, ScenarioNewsFirst, ScenarioRepeated}

\* The runners tried: a configuration and what it runs over.
Setups ==
    (RunConfigs \X Scenarios)
    \cup {<<RunConfigClassifier, ScenarioNoKeywords>>,
          <<RunConfigConfirmOnly, ScenarioNoKeywords>>,
          <<RunConfigEmitWatch, ScenarioOneLocation>>}

\* No runner has been started yet: no state file, no summary file.
NotStarted ==
    /\ summary = EmptyDict
    /\ outbox = <<>>
    /\ dispatches = EmptyDict
    /\ completed = {}
    /\ cooling = {}
    /\ last_emit = NoEmit
    /\ emits = 0
    /\ latest_run = NoRunFile
    /\ run_pc = "idle"
    /\ loc_ix = 0
    /\ src_ix = 0
    /\ pending_nws = <<>>
    /\ pending_usgs = <<>>
    /\ rss_items = <<>>
    /\ pending_llm = <<>>
    /\ hysteria_flag = FALSE
    /\ runs = 0
    /\ raised = {}
    /\ llm_raised = {}
    /\ abort_cause = "none"
    /\ RbIdle
    /\ SigIdle
    /\ StoreIdle
    /\ NwsIdle
    /\ CallIdle

Init ==
    /\ \E setup \in Setups : rcfg = setup[1] /\ scenario = setup[2]
    /\ NotStarted

\* What no step of a runner changes, and what _emit_if_needed can change.
fixedInRun == <<rbVars, nwsVars, callVars, cfg, sig_log, st_ret, st_ops, marked, started,
                rcfg, emits, scenario>>
emitOut == <<state, summary, outbox, dispatches, completed, cooling, last_emit>>

CurLoc == scenario.locations[loc_ix]

\* Lines 186-196: the next location, with fresh locals, or line 290.
EnterLocation(ix) ==
    /\ loc_ix' = ix
    /\ pending_nws' = <<>>
    /\ pending_usgs' = <<>>
    /\ rss_items' = <<>>
    /\ pending_llm' = <<>>
    /\ hysteria_flag' = FALSE
    /\ IF ix > Len(scenario.locations)
       THEN run_pc' = "save" /\ src_ix' = 0
       ELSE run_pc' = "fetch" /\ src_ix' = 1

\* An exception leaves run_once: nothing in __init__ or run() catches it.
Abort(cause) ==
    /\ run_pc' = "aborted"
    /\ abort_cause' = cause

\* run_once: PrepperAlertsRunner.__init__ (lines 128-170), then run() up to
\* the first fetch.
StartRun ==
    /\ run_pc \in {"idle", "done", "aborted"}
    /\ runs < scenario.run_limit
    /\ runs' = runs + 1
    /\ raised' = {}
    /\ llm_raised' = {}
    /\ IF Torn(file)
       THEN /\ Abort("load")
            /\ UNCHANGED <<state, baselines, confirmations, surge, summary, loc_ix,
                           src_ix, pending_nws, pending_usgs, rss_items, pending_llm,
                           hysteria_flag>>
       ELSE /\ state' = Load(file)
            /\ baselines' = [l \in Locs |-> <<>>]
            /\ confirmations' = [l \in Locs |-> {}]
            /\ surge' = NoSurge
            /\ summary' = EmptyDict
            /\ abort_cause' = "none"
            /\ EnterLocation(1)
    /\ UNCHANGED <<fixedInRun, file, now, latest_run,
                   outbox, dispatches, completed, cooling, last_emit>>

\* Lines 198-213 for a result the source returned.
RecordFeedsFailed(provider, answer) ==
    LET result == [provider |-> provider, location_id |-> CurLoc.id,
                   items |-> answer.items, ok |-> answer.ok,
                   error |-> answer.error, latency_ms |-> answer.latency_ms]
        fed == provider = S_news_rss
        domains == {item.domain : item \in Range(result.items)} \ {<<>>}
        rn == RecordNewsOp(cfg, baselines, confirmations, CurLoc.id,
                           Len(result.items), Cardinality(domains))
        sm == RecordSource(summary, result)
    IN  /\ summary' = IF fed THEN RecordSurge(sm, rn.surge) ELSE sm
        /\ baselines' = IF fed THEN rn.baselines ELSE baselines
        /\ confirmations' = IF fed THEN rn.confirmations ELSE confirmations
        /\ surge' = IF fed THEN rn.surge ELSE surge
        /\ rss_items' = IF fed THEN result.items ELSE rss_items
        /\ pending_nws' = IF provider = S_nws /\ result.items # <<>>
                          THEN pending_nws \o result.items ELSE pending_nws
        /\ pending_usgs' = IF provider = S_usgs /\ result.items # <<>>
                           THEN pending_usgs \o result.items ELSE pending_usgs

Record(provider, answer) ==
    LET result == [provider |-> provider, location_id |-> CurLoc.id,
                   items |-> answer.items, ok |-> answer.ok,
                   error |-> answer.error, latency_ms |-> answer.latency_ms]
        fed == provider = S_news_rss /\ result.ok
        domains == {item.domain : item \in Range(result.items)} \ {<<>>}
        rn == RecordNewsOp(cfg, baselines, confirmations, CurLoc.id,
                           Len(result.items), Cardinality(domains))
        sm == RecordSource(summary, result)
    IN  /\ summary' = IF fed THEN RecordSurge(sm, rn.surge) ELSE sm
        /\ baselines' = IF fed THEN rn.baselines ELSE baselines
        /\ confirmations' = IF fed THEN rn.confirmations ELSE confirmations
        /\ surge' = IF fed THEN rn.surge ELSE surge
        /\ rss_items' = IF fed THEN result.items ELSE rss_items
        /\ pending_nws' = IF provider = S_nws /\ result.items # <<>>
                          THEN pending_nws \o result.items ELSE pending_nws
        /\ pending_usgs' = IF provider = S_usgs /\ result.items # <<>>
                           THEN pending_usgs \o result.items ELSE pending_usgs

\* Line 198 and what follows it for one source.
Fetch ==
    /\ run_pc = "fetch"
    /\ \E answer \in FetchMenu(scenario.menu, scenario.order[src_ix]) :
          IF answer.raised
          THEN /\ Abort("fetch")
               /\ raised' = raised \cup {<<CurLoc.id, scenario.order[src_ix]>>}
               /\ UNCHANGED <<summary, baselines, confirmations, surge, rss_items,
                              pending_nws, pending_usgs, src_ix>>
          ELSE /\ Record(scenario.order[src_ix], answer)
               /\ IF src_ix < Len(scenario.order)
                  THEN src_ix' = src_ix + 1 /\ run_pc' = "fetch"
                  ELSE src_ix' = src_ix /\ run_pc' = "classify"
               /\ UNCHANGED <<raised, abort_cause>>
    /\ UNCHANGED <<fixedInRun, state, file, now, latest_run, outbox, dispatches,
                   completed, cooling, last_emit, loc_ix, pending_llm,
                   hysteria_flag, runs, llm_raised>>

\* Lines 215-258: enrichment, classification, post-filter, the llm_news
\* record and the confirmation.
Classify ==
    /\ run_pc = "classify"
    /\ run_pc' = "llm_emit"
    /\ IF rcfg.llm_enabled /\ rss_items # <<>>
       THEN \E enrich_answer \in EnrichAnswers, llm_answer \in LlmAnswers :
              LET enriched == Enriched(rss_items, rcfg.allow_domains, rcfg.llm_max_items,
                                       rcfg.llm_max_chars, enrich_answer)
                  filtered == Filtered(enriched, rcfg.llm_max_items, llm_answer)
                  accepted == Accepted(filtered, KeywordsOf(CurLoc.id),
                                       rcfg.llm_confirm_min_severity)
                  llm_result == [provider |-> S_llm_news, location_id |-> CurLoc.id,
                                 items |-> accepted, ok |-> TRUE,
                                 error |-> IF accepted # <<>> THEN <<>>
                                           ELSE S_no_relevant_items,
                                 latency_ms |-> 0]
              IN  /\ summary' = RecordSource(summary, llm_result)
                  /\ confirmations' = IF accepted # <<>>
                                      THEN RecordConfirmationOp(confirmations, CurLoc.id,
                                                                S_llm_news)
                                      ELSE confirmations
                  /\ pending_llm' = IF rcfg.llm_emit_alerts
                                    THEN SelectSeq(accepted,
                                           LAMBDA i : SevOf(i) >= rcfg.llm_min_severity)
                                    ELSE <<>>
                  /\ llm_raised' = llm_raised
                        \cup (IF enrich_answer.raised
                              THEN {<<CurLoc.id, S_enrich>>} ELSE {})
                        \cup (IF llm_answer.raised
                              THEN {<<CurLoc.id, S_classify>>} ELSE {})
       ELSE UNCHANGED <<summary, confirmations, pending_llm, llm_raised>>
    /\ UNCHANGED <<fixedInRun, state, file, now, latest_run, outbox, dispatches,
                   completed, cooling, last_emit, baselines, surge, loc_ix, src_ix,
                   pending_nws, pending_usgs, rss_items, hysteria_flag, runs, raised,
                   abort_cause>>

\* _emit_if_needed called from run(): an exception of dispatch leaves run().
EmitInRun(decision) ==
    \E push_answer \in PushAnswers, email_answer \in EmailAnswers :
        /\ EmitStep(decision, push_answer, email_answer)
        /\ IF last_emit'.outcome = "raised"
           THEN Abort("dispatch")
           ELSE UNCHANGED <<run_pc, abort_cause>>

\* Lines 259-277 for one accepted item.
EmitLlm ==
    /\ run_pc = "llm_emit"
    /\ pending_llm # <<>>
    /\ EmitInRun(LlmDecision(CurLoc.id, Head(pending_llm)))
    /\ pending_llm' = Tail(pending_llm)
    /\ UNCHANGED <<fixedInRun, file, now, latest_run, baselines, confirmations, surge,
                   loc_ix, src_ix, pending_nws, pending_usgs, rss_items, hysteria_flag,
                   runs, raised, llm_raised>>

\* Line 278
HysteriaBeforeClassifier ==
    /\ run_pc = "llm_emit"
    /\ pending_llm = <<>>
    /\ hysteria_flag' = HysteriaActive(cfg, [confirmations EXCEPT
                                               ![CurLoc.id] = @ \ {S_llm_news}], CurLoc.id)
    /\ run_pc' = "items"
    /\ UNCHANGED <<fixedInRun, emitOut, file, now, latest_run, baselines, confirmations,
                   surge, loc_ix, src_ix, pending_nws, pending_usgs, rss_items,
                   pending_llm, runs, raised, llm_raised, abort_cause>>

Hysteria ==
    /\ run_pc = "llm_emit"
    /\ pending_llm = <<>>
    /\ hysteria_flag' = HysteriaActive(cfg, confirmations, CurLoc.id)
    /\ run_pc' = "items"
    /\ UNCHANGED <<fixedInRun, emitOut, file, now, latest_run, baselines, confirmations,
                   surge, loc_ix, src_ix, pending_nws, pending_usgs, rss_items,
                   pending_llm, runs, raised, llm_raised, abort_cause>>

\* Lines 281-284 for one buffered official alert.
EmitNws ==
    /\ run_pc = "items"
    /\ pending_nws # <<>>
    /\ LET decision == DecisionFromNws(CurLoc, KeywordsOf(CurLoc.id), Head(pending_nws),
                                       hysteria_flag, severe_thresholds)
       IN  IF decision.some THEN EmitInRun(decision)
           ELSE UNCHANGED <<emitOut, run_pc, abort_cause>>
    /\ pending_nws' = Tail(pending_nws)
    /\ UNCHANGED <<fixedInRun, file, now, latest_run, baselines, confirmations, surge,
                   loc_ix, src_ix, pending_usgs, rss_items, pending_llm, hysteria_flag,
                   runs, raised, llm_raised>>

\* Lines 285-288 for one buffered earthquake.
EmitUsgs ==
    /\ run_pc = "items"
    /\ pending_nws = <<>>
    /\ pending_usgs # <<>>
    /\ LET decision == DecisionFromUsgs(rcfg, CurLoc.id, Head(pending_usgs))
       IN  IF decision.some THEN EmitInRun(decision)
           ELSE UNCHANGED <<emitOut, run_pc, abort_cause>>
    /\ pending_usgs' = Tail(pending_usgs)
    /\ UNCHANGED <<fixedInRun, file, now, latest_run, baselines, confirmations, surge,
                   loc_ix, src_ix, pending_nws, rss_items, pending_llm, hysteria_flag,
                   runs, raised, llm_raised>>

\* Line 186: on to the next location, or out of the loop.
NextLocationSaves ==
    /\ run_pc = "items"
    /\ pending_nws = <<>>
    /\ pending_usgs = <<>>
    /\ EnterLocation(loc_ix + 1)
    /\ file' = Save(state)
    /\ UNCHANGED <<fixedInRun, emitOut, now, latest_run, baselines, confirmations,
                   surge, runs, raised, llm_raised, abort_cause>>

NextLocation ==
    /\ run_pc = "items"
    /\ pending_nws = <<>>
    /\ pending_usgs = <<>>
    /\ EnterLocation(loc_ix + 1)
    /\ UNCHANGED <<fixedInRun, emitOut, file, now, latest_run, baselines, confirmations,
                   surge, runs, raised, llm_raised, abort_cause>>

\* Line 290: self.state.save()
SaveState ==
    /\ run_pc = "save"
    /\ file' = Save(state)
    /\ run_pc' = "write"
    /\ UNCHANGED <<fixedInRun, emitOut, now, latest_run, baselines, confirmations, surge,
                   loc_ix, src_ix, pending_nws, pending_usgs, rss_items, pending_llm,
                   hysteria_flag, runs, raised, llm_raised, abort_cause>>

\* Line 291: self.summary.write()
WriteSummary ==
    /\ run_pc = "write"
    /\ latest_run' = [exists |-> TRUE, locations |-> summary]
    /\ run_pc' = "reset"
    /\ UNCHANGED <<fixedInRun, emitOut, file, now, baselines, confirmations, surge,
                   loc_ix, src_ix, pending_nws, pending_usgs, rss_items, pending_llm,
                   hysteria_flag, runs, raised, llm_raised, abort_cause>>

\* Line 295: self.signals.reset_run_state(); run() returns.
ResetSignals ==
    /\ run_pc = "reset"
    /\ confirmations' = ResetRunStateOp(confirmations)
    /\ run_pc' = "done"
    /\ UNCHANGED <<fixedInRun, emitOut, file, now, latest_run, baselines, surge,
                   loc_ix, src_ix, pending_nws, pending_usgs, rss_items, pending_llm,
                   hysteria_flag, runs, raised, llm_raised, abort_cause>>

\* The process is stopped from outside while run() is executing; at line 290
\* that is before save() or inside it.
Kill ==
    /\ run_pc \in {"fetch", "classify", "llm_emit", "items", "save", "write", "reset"}
    /\ Abort("kill")
    /\ file' \in (IF run_pc = "save" THEN {file} \cup SaveInterrupted(state) ELSE {file})
    /\ UNCHANGED <<fixedInRun, emitOut, now, latest_run, baselines, confirmations,
                   surge, loc_ix, src_ix, pending_nws, pending_usgs, rss_items,
                   pending_llm, hysteria_flag, runs, raised, llm_raised>>

\* The clock advances.
Tick ==
    /\ now < MaxTime
    /\ now' = now + 1
    /\ UNCHANGED <<fixedInRun, emitOut, file, latest_run, baselines, confirmations,
                   surge, loopVars>>

Next ==
    \/ StartRun
    \/ Fetch
    \/ Classify
    \/ EmitLlm
    \/ Hysteria
    \/ EmitNws
    \/ EmitUsgs
    \/ NextLocation
    \/ SaveState
    \/ WriteSummary
    \/ ResetSignals
    \/ Kill
    \/ Tick

Spec == Init /\ [][Next]_vars



----------------------------------------------------------------------------
(* Claims about RollingBaseline. *)

\* The k-th smallest element of s (1-based), by counting, not by sorting.
KthSmallest(s, k) ==
    CHOOSE v \in Range(s) :
        /\ Cardinality({i \in 1..Len(s) : s[i] < v}) < k
        /\ Cardinality({i \in 1..Len(s) : s[i] <= v}) >= k

\* Twice the median of s: 0 for no samples, the middle value of an odd
\* count, the mean of the two middle values of an even count.
MedianByRank2(s) ==
    IF Len(s) = 0 THEN 0
    ELSE IF Len(s) % 2 = 1 THEN 2 * KthSmallest(s, (Len(s) + 1) \div 2)
    ELSE KthSmallest(s, Len(s) \div 2) + KthSmallest(s, Len(s) \div 2 + 1)

Positives(s) == SelectSeq(s, LAMBDA v : v > 0)

\* C6: after the k-th observe call the value it returned is the median of
\* the min(k-1, N) most recent positive values of the earlier calls (all of
\* them when there are fewer), taken before the new value is added; a
\* zero-count call returns that median and does not enter the window; the
\* median of nothing is 0.0 and of an even count the mean of the two middle
\* values.
C6_ObserveReturnsPriorMedian ==
    Len(rb_calls) >= 1 =>
        LET k == Len(rb_calls)
            earlier == SubSeq(rb_calls, 1, k - 1)
            recent == LastN(Positives(earlier), Min(k - 1, rb_window))
        IN  /\ rb_ret = MedianByRank2(recent)
            /\ (Positives(earlier) = <<>> => rb_ret = 0)
            /\ (rb_calls[k] = 0 =>
                    rb_samples = LastN(Positives(earlier), rb_window))

\* Witness of C6: a full window has evicted a sample, a zero-count call has
\* been made, and the last call returned the mean of two distinct middle
\* values (an even-sized window).
C6_Witness ==
    /\ Len(Positives(rb_calls)) > rb_window
    /\ \E i \in 1..Len(rb_calls) : rb_calls[i] = 0
    /\ rb_ret % 2 = 1

----------------------------------------------------------------------------
(* Claims about SignalsEngine, stated over the log of calls. *)

\* The calls of sig_log[1..n] made after the last reset_run_state among them.
RECURSIVE SinceReset(_, _)
SinceReset(log, n) ==
    IF n = 0 \/ log[n].op = "reset_run_state" THEN {}
    ELSE {n} \cup SinceReset(log, n - 1)

\* The counts passed to record_news for location l in calls 1..n, in order.
NewsCountsOf(log, n, l) ==
    LET sel == SelectSeq(SubSeq(log, 1, n),
                         LAMBDA e : e.op = "record_news" /\ e.location_id = l)
    IN  [i \in 1..Len(sel) |-> sel[i].count]

\* Twice the median of l's window as it stands before call n.
BaselineBefore2(log, n, l) ==
    MedianByRank2(LastN(Positives(NewsCountsOf(log, n - 1, l)), DefaultWindow))

\* The trip condition as the specification words it, for call n of the log.
TripsAt(log, n) ==
    LET e == log[n]
        b2 == BaselineBefore2(log, n, e.location_id)
    IN  /\ e.op = "record_news"
        /\ e.count >= cfg.news_min_mentions
        /\ (b2 = 0 \/ 2 * cfg.spike_den * e.count >= b2 * cfg.spike_num)
        /\ e.arg >= cfg.require_domains

\* C4: the SurgeResult of every record_news call reports the median of the
\* location's earlier positive counts as its baseline, and tripped is true
\* exactly when count >= news_min_mentions, and baseline = 0 or
\* count >= baseline * news_spike_factor, and domains >= require_domains;
\* after a single earlier observation b > 0, a call with count >= b * factor
\* that meets both floors reports baseline = b and tripped.
C4_TrippedIffCondition ==
    (Len(sig_log) >= 1 /\ sig_log[Len(sig_log)].op = "record_news") =>
        LET n == Len(sig_log)
            e == sig_log[n]
            prior == NewsCountsOf(sig_log, n - 1, e.location_id)
        IN  /\ surge.location_id = e.location_id
            /\ surge.count = e.count
            /\ surge.baseline2 = BaselineBefore2(sig_log, n, e.location_id)
            /\ surge.tripped <=> TripsAt(sig_log, n)
            /\ (/\ Len(prior) = 1
                /\ prior[1] > 0
                /\ cfg.spike_den * e.count >= prior[1] * cfg.spike_num
                /\ e.count >= cfg.news_min_mentions
                /\ e.arg >= cfg.require_domains)
               => (surge.baseline2 = 2 * prior[1] /\ surge.tripped)

\* Witness of C4: a second record_news call tripped against a non-zero
\* baseline that the first call set.
C4_Witness ==
    /\ Len(sig_log) = 2
    /\ sig_log[1].op = "record_news"
    /\ sig_log[2].op = "record_news"
    /\ sig_log[1].location_id = sig_log[2].location_id
    /\ surge.baseline2 = 2 * sig_log[1].count
    /\ surge.baseline2 > 0
    /\ surge.tripped

\* The distinct names confirmed for location l since the last reset: the
\* names passed to record_confirmation, and "news" when a record_news call
\* for l tripped.
ConfirmedNames(log, l) ==
    LET live == SinceReset(log, Len(log))
    IN  {log[i].arg : i \in {j \in live : log[j].op = "record_confirmation"
                                          /\ log[j].location_id = l}}
        \cup (IF \E i \in live : log[i].location_id = l /\ TripsAt(log, i)
              THEN {S_news} ELSE {})

\* C5: hysteria_active(loc) is true exactly when the number of distinct
\* source names confirmed for loc is >= hysteria_sources; a name recorded
\* again counts once; "news" is in the set exactly when a record_news call
\* for loc tripped.
C5_HysteriaIffEnoughSources ==
    \A l \in Locs :
        /\ confirmations[l] = ConfirmedNames(sig_log, l)
        /\ HysteriaActive(cfg, confirmations, l)
               <=> Cardinality(ConfirmedNames(sig_log, l)) >= cfg.hysteria_sources

\* Witness of C5: with threshold 2, a tripped surge and then
\* record_confirmation(loc, "gdelt") have made hysteria active.
C5_Witness ==
    \E l \in Locs :
        /\ cfg.hysteria_sources = 2
        /\ Len(sig_log) = 3
        /\ sig_log[3] = [op |-> "record_confirmation", location_id |-> l,
                         count |-> 0, arg |-> S_gdelt]
        /\ surge.tripped /\ surge.location_id = l
        /\ confirmations[l] = {S_news, S_gdelt}
        /\ HysteriaActive(cfg, confirmations, l)

----------------------------------------------------------------------------
(* Claims about StateStore. *)

\* The buckets a document holds a cooldown for.
FileBuckets(f) == {p[1] : p \in f.cooldowns}

\* C7: start_cooldown(bucket, m) records the expiry now + m, so that
\* in_cooldown(bucket) is true at once (m >= 1); in_cooldown is true at every
\* time strictly before the recorded expiry and leaves the store alone; at
\* now >= expiry it returns false and removes the bucket; a bucket comes back
\* only by start_cooldown or by loading a file, so a document saved
\* afterwards does not hold it (save writes exactly the buckets of the
\* store); in_cooldown of a bucket never started returns false.
C7_CooldownUntilExpiry ==
    [][ /\ \A b \in StoreBuckets, m \in CooldownMinutes :
               StStartCooldown(b, m) =>
                   /\ b \in DOMAIN state'.cooldowns
                   /\ Strptime(state'.cooldowns[b]) = now + m
                   /\ InCooldown(state', b, now).ret
        /\ \A b \in StoreBuckets :
               StInCooldown(b) =>
                   /\ st_ret'.bucket = b
                   /\ b \notin started => ~st_ret'.value
                   /\ b \in DOMAIN state.cooldowns =>
                        IF now < Strptime(state.cooldowns[b])
                        THEN st_ret'.value /\ state' = state
                        ELSE /\ ~st_ret'.value
                             /\ b \notin DOMAIN state'.cooldowns
                   /\ b \notin DOMAIN state.cooldowns => ~st_ret'.value
        /\ \A b \in StoreBuckets :
               (b \notin DOMAIN state.cooldowns /\ b \in DOMAIN state'.cooldowns)
                   => (StLoad \/ \E m \in CooldownMinutes : StStartCooldown(b, m))
        /\ StSave => FileBuckets(file') = DOMAIN state.cooldowns
      ]_vars

\* Witness of C7: a bucket was started, its expiry passed, in_cooldown
\* returned false and removed it, and the document saved afterwards does not
\* hold it.
C7_Witness ==
    \E b \in StoreBuckets :
        /\ b \in started
        /\ st_ret = [bucket |-> b, value |-> FALSE]
        /\ b \notin DOMAIN state.cooldowns
        /\ file.exists
        /\ b \notin FileBuckets(file)

\* C8: for every AlertKey k, is_seen(k) is false while mark_seen(k) was never
\* called, true right after mark_seen(k), and stays true over every further
\* operation (a load counts when it reads what the store has just saved).
C8_SeenIffMarked ==
    [][ /\ \A k \in StoreKeys : k \notin marked' => ~IsSeen(state', k)
        /\ \A k \in StoreKeys : StMarkSeen(k) => IsSeen(state', k)
        /\ (StLoad => file = Save(state))
               => \A k \in StoreKeys : IsSeen(state, k) => IsSeen(state', k)
      ]_vars

\* The part of C8 that the code keeps: a key is seen right after mark_seen,
\* and no operation removes an entry of the seen map.
C8_SeenPersists ==
    [][ /\ \A k \in StoreKeys : StMarkSeen(k) => IsSeen(state', k)
        /\ (StLoad => file = Save(state))
               => \A k \in StoreKeys : IsSeen(state, k) => IsSeen(state', k)
      ]_vars

----------------------------------------------------------------------------
(* Claims about _decision_from_nws. *)

\* C10: for a locality-matching item, with severity read in title case and
\* event and urgency in lower case (as the function reads them): no decision
\* when hysteria is inactive and the event contains "watch" or the severity
\* is minor or moderate; no decision when hysteria is inactive and the
\* severity is not in the emergency set; a decision for every such item when
\* hysteria is active; a decision has priority 2 exactly when the severity
\* is in the emergency set or the urgency is "immediate", and priority 1
\* otherwise.  The call leaves the StateStore and the SignalsEngine as they
\* were.
C10_NwsDecision ==
    [][ DecideNws =>
          /\ UNCHANGED <<state, file, baselines, confirmations>>
          /\ NwsImpactsLocation(HomePayload, HomeKeywords, nws_item) =>
               LET severity == Title(nws_item.severity)
                   watch_class == \/ Contains(S_watch, Lower(Or(nws_item.event, S_NWS_Alert)))
                                  \/ Lower(severity) \in {S_minor, S_moderate}
                   emergency == severity \in severe_thresholds
               IN  /\ (~nws_hysteria /\ watch_class) => ~nws_out'.some
                   /\ (~nws_hysteria /\ ~emergency) => ~nws_out'.some
                   /\ nws_hysteria => nws_out'.some
                   /\ (~watch_class /\ emergency) => nws_out'.some
                   /\ nws_out'.some =>
                        /\ nws_out'.priority \in {1, 2}
                        /\ nws_out'.priority = 2
                             <=> (emergency \/ Lower(nws_item.urgency) = S_immediate)
      ]_vars

\* Witness of C10: under active hysteria a locality-matching watch-class item
\* below the emergency set was given a decision, of priority 2 because its
\* urgency is "Immediate".
C10_Witness ==
    /\ nws_pc = "returned"
    /\ nws_hysteria
    /\ NwsImpactsLocation(HomePayload, HomeKeywords, nws_item)
    /\ Contains(S_watch, Lower(nws_item.event))
    /\ Title(nws_item.severity) \notin severe_thresholds
    /\ nws_out.some
    /\ nws_out.priority = 2

----------------------------------------------------------------------------
(* _emit_if_needed: idempotence and the cooldown gate *)

\* Some cooldown started for the decision's (location, category, priority)
\* has not expired at time t.
CooldownRunning(d, t) ==
    \E c \in cooling :
        /\ c.location_id = d.location_id
        /\ c.category = d.category
        /\ c.priority = d.priority
        /\ t < c.until

\* C1: once a call of _emit_if_needed has dispatched a decision, every later
\* call with a decision of the same AlertKey (location, provider, title,
\* category), in particular one made while the cooldown started by the first
\* call is running, is skipped as a duplicate: dispatch is not invoked again,
\* no message reaches a delivery service, the store is unchanged, and no
\* alert record (so no failed delivery) is added to the run summary.
C1_SameKeyDispatchedOnce ==
    [][ EmCalls =>
          (KeyOf(last_emit'.decision) \in completed =>
              /\ last_emit'.outcome = "duplicate"
              /\ dispatches' = dispatches
              /\ outbox' = outbox
              /\ summary' = summary
              /\ state' = state)
      ]_vars

\* A second call with the key of a dispatched decision, made while the
\* cooldown that the first call started is running, was skipped, and
\* dispatch has been invoked once for the key.
C1_Witness ==
    /\ last_emit.outcome = "duplicate"
    /\ KeyOf(last_emit.decision) \in completed
    /\ CooldownRunning(last_emit.decision, last_emit.at)
    /\ Count(dispatches, Composite(KeyOf(last_emit.decision))) = 1

\* C9: a decision whose AlertKey has not been dispatched is stopped by the
\* cooldown gate exactly when a cooldown started for the same location,
\* category and priority is still running; then nothing is dispatched.  A
\* running cooldown that differs in location, category or priority does not
\* stop it: dispatch is invoked.
C9_CooldownKeyedByBucket ==
    [][ EmCalls =>
          (KeyOf(last_emit'.decision) \notin completed =>
              /\ CooldownRunning(last_emit'.decision, now) =>
                    /\ last_emit'.outcome = "cooldown"
                    /\ dispatches' = dispatches
                    /\ outbox' = outbox
              /\ ~CooldownRunning(last_emit'.decision, now) =>
                    /\ last_emit'.outcome \in {"dispatched", "raised"}
                    /\ dispatches' # dispatches)
      ]_vars

\* A decision with a fresh AlertKey was stopped by the running cooldown of
\* its bucket, while a decision of the same location and category but
\* another priority had been dispatched during a running cooldown.
C9_Witness ==
    /\ last_emit.outcome = "cooldown"
    /\ KeyOf(last_emit.decision) \notin completed
    /\ CooldownRunning(last_emit.decision, last_emit.at)
    /\ \E c1 \in cooling, c2 \in cooling :
          /\ c1.location_id = c2.location_id
          /\ c1.category = c2.category
          /\ c1.priority # c2.priority
          /\ c1.until > now
          /\ c2.until > now

----------------------------------------------------------------------------
(* run(): a source that raises, and delivery across runs *)

\* C3: when a source's fetch has raised for a location, the run is not
\* aborted and the run summary holds, for that location and source, a record
\* with ok = false and a non-empty error.
C3_FetchExceptionRecorded ==
    \A p \in raised :
        /\ run_pc # "aborted"
        /\ p[1] \in DOMAIN summary
        /\ p[2] \in DOMAIN summary[p[1]].sources
        /\ ~summary[p[1]].sources[p[2]].ok
        /\ summary[p[1]].sources[p[2]].error # <<>>

\* C2: over all the runs on one state file, dispatch is invoked at most
\* once for any composite key.
C2_AtMostOncePerKey ==
    \A k \in DOMAIN dispatches : dispatches[k] <= 1

----------------------------------------------------------------------------
(* _decision_from_usgs *)

\* The threshold of the claim: the location's override when present, else
\* the global default.
ThresholdFor(name) ==
    IF usgs_loc \in DOMAIN rcfg.overrides /\ name \in DOMAIN rcfg.overrides[usgs_loc]
    THEN rcfg.overrides[usgs_loc][name]
    ELSE rcfg.quake_defaults[name]

ClaimedMag == IF usgs_item.mag = NoMag THEN 0 ELSE usgs_item.mag

\* C11: with the location's override thresholds when present and the global
\* defaults otherwise, _decision_from_usgs returns no decision if mag < normal,
\* a priority-1 decision if normal <= mag < emergency, and a priority-2
\* decision if mag >= emergency; a missing magnitude counts as 0.
C11_UsgsThresholds ==
    usgs_pc = "returned" =>
        LET normal == ThresholdFor("quake_min_mag_normal")
            emergency == ThresholdFor("quake_min_mag_emergency")
        IN  /\ ClaimedMag < normal => ~usgs_out.some
            /\ (normal <= ClaimedMag /\ ClaimedMag < emergency) =>
                  (usgs_out.some /\ usgs_out.priority = 1)
            /\ ClaimedMag >= emergency => (usgs_out.some /\ usgs_out.priority = 2)

\* What holds of C11: the same three cases whenever the thresholds in force
\* are ordered (normal <= emergency), as the validator of the defaults
\* demands.
C11_UsgsOrderedThresholds ==
    (usgs_pc = "returned"
       /\ ThresholdFor("quake_min_mag_normal") <= ThresholdFor("quake_min_mag_emergency"))
    => LET normal == ThresholdFor("quake_min_mag_normal")
           emergency == ThresholdFor("quake_min_mag_emergency")
       IN  /\ ClaimedMag < normal => ~usgs_out.some
           /\ (normal <= ClaimedMag /\ ClaimedMag < emergency) =>
                 (usgs_out.some /\ usgs_out.priority = 1)
           /\ ClaimedMag >= emergency => (usgs_out.some /\ usgs_out.priority = 2)

----------------------------------------------------------------------------
(* Claims about SignalsEngine.reset_run_state and the surge test. *)

\* C17: reset_run_state empties the corroboration set of every location, so
\* hysteria_active is false for every location right after it (threshold at
\* least 1), and it leaves every location's RollingBaseline samples as they
\* were.
C17_ResetRunState ==
    [][ SigResetRunState =>
            /\ \A l \in Locs : confirmations'[l] = {}
            /\ \A l \in Locs : ~HysteriaActive(cfg, confirmations', l)
            /\ baselines' = baselines
      ]_vars

\* A surge tripped and was confirmed, then reset_run_state ran: no
\* confirmation is left and the sample is still in the baseline.
C17_Witness ==
    /\ Len(sig_log) >= 2
    /\ sig_log[Len(sig_log)].op = "reset_run_state"
    /\ sig_log[Len(sig_log) - 1].op = "record_news"
    /\ surge.tripped
    /\ baselines[surge.location_id] # <<>>
    /\ \A l \in Locs : confirmations[l] = {}

\* C18: the surge trip is monotonic in the count: when record_news with
\* count c1 and a distinct-domain count d that meets the floor trips, then
\* record_news with any count c2 > c1, the same d and the same baseline also
\* trips.
C18_TripMonotonicInCount ==
    [][ \A l \in Locs, c1 \in NewsCounts, d \in DomainCounts :
            (SigRecordNews(l, c1, d) /\ surge'.tripped /\ d >= cfg.require_domains) =>
                \A c2 \in (c1 + 1)..(2 * c1 + 1) :
                    LET again == RecordNewsOp(cfg, baselines, confirmations, l, c2, d)
                    IN  /\ again.surge.baseline2 = surge'.baseline2
                        /\ again.surge.tripped
      ]_vars

\* A count tripped against a baseline above zero, where a smaller count that
\* reaches the mention floor would not have.
C18_Witness ==
    /\ surge.tripped
    /\ surge.baseline2 > 0
    /\ \E c0 \in NewsCounts :
           /\ c0 < surge.count
           /\ c0 >= cfg.news_min_mentions
           /\ ~Tripped(cfg, c0, surge.baseline2, surge.distinct_domains)

----------------------------------------------------------------------------
(* StateStore.save and a stop of the process *)

\* C14: StateStore.save is atomic with respect to crashes: wherever the
\* process stops during save, the file at the state path holds the whole
\* previous content or the whole new content, never an empty or partly
\* written document.
C14_SaveAtomic == file.exists => file.complete

C16_LoadMissingFile ==
    [][ (StLoad /\ ~file.exists) =>
            /\ st_ret' = st_ret
            /\ state' = EmptyStore
            /\ \A k \in StoreKeys : ~IsSeen(state', k)
            /\ \A b \in StoreBuckets :
                   /\ ~InCooldown(state', b, now').ret
                   /\ InCooldown(state', b, now').state = state'
      ]_vars

\* A store that had entries was never saved; load of the missing path has
\* replaced it by the empty one.
C16_Witness ==
    /\ ~file.exists
    /\ marked # {}
    /\ started # {}
    /\ state = EmptyStore
    /\ st_ret.bucket # S_JSONDecodeError

----------------------------------------------------------------------------
(* run(): when the two files are written *)

InLocationLoop == run_pc \in {"fetch", "classify", "llm_emit", "items"}

\* C12: the state file and the run summary are written only after the loop
\* over all locations has finished, in the order save StateStore, write run
\* summary, clear the corroboration sets; a step of the location loop, and a
\* stop part-way through it, modifies neither file, so the state file still
\* holds what the run loaded (the store's content at start).
C12_FilesWrittenAfterLoop ==
    [][ /\ file' # file =>
              /\ run_pc = "save"
              /\ loc_ix > Len(scenario.locations)
              /\ latest_run' = latest_run
              /\ \/ file' = Save(state) /\ run_pc' = "write"
                 \/ file' \in SaveInterrupted(state) /\ run_pc' = "aborted"
        /\ latest_run' # latest_run =>
              /\ run_pc = "write"
              /\ file = Save(state)
              /\ latest_run' = [exists |-> TRUE, locations |-> summary]
              /\ run_pc' = "reset"
        /\ (run_pc' = "done" /\ run_pc # "done") =>
              /\ run_pc = "reset"
              /\ file = Save(state)
              /\ latest_run = [exists |-> TRUE, locations |-> summary]
              /\ \A l \in DOMAIN confirmations' : confirmations'[l] = {}
        /\ InLocationLoop => (file' = file /\ latest_run' = latest_run)
        /\ (run_pc = "idle" \/ run_pc = "done" \/ run_pc = "aborted") =>
              (file' = file /\ latest_run' = latest_run
               /\ (runs' # runs /\ ~Torn(file) => state' = Load(file)))
      ]_vars

\* A first run has finished and written both files; a second one has
\* dispatched nothing new and stopped part-way through the loop.
C12_Witness ==
    /\ runs = 2
    /\ run_pc = "aborted"
    /\ abort_cause = "fetch"
    /\ loc_ix <= Len(scenario.locations)
    /\ file.exists
    /\ latest_run.exists
    /\ file = Save(state)
    /\ DOMAIN state.seen # {}

----------------------------------------------------------------------------
(* run(): when the hysteria flag is evaluated *)

\* The confirmations a location's records in the run summary stand for: a
\* tripped surge and an llm_news record with accepted items.  The records
\* are kept per provider, whatever the order of polling.
ConfirmedByRecords(sm, location_id) ==
    IF location_id \notin DOMAIN sm THEN {}
    ELSE LET ls == sm[location_id]
         IN  (IF ls.surges # <<>> /\ ls.surges[Len(ls.surges)].tripped
              THEN {S_news} ELSE {})
             \cup
             (IF S_llm_news \in DOMAIN ls.sources /\ ls.sources[S_llm_news].error = <<>>
              THEN {S_llm_news} ELSE {})

FlagOfRecords ==
    Cardinality(ConfirmedByRecords(summary, CurLoc.id)) >= cfg.hysteria_sources

C13_FlagAfterPolling ==
    run_pc = "items" =>
        /\ src_ix = Len(scenario.order)
        /\ \A p \in Range(scenario.order) : p \in DOMAIN summary[CurLoc.id].sources
        /\ hysteria_flag = FlagOfRecords

C13_DecisionsFromFlag ==
    /\ (run_pc = "items" /\ pending_nws # <<>> /\ pending_nws' = Tail(pending_nws)) =>
          LET d == DecisionFromNws(CurLoc, KeywordsOf(CurLoc.id), Head(pending_nws),
                                   FlagOfRecords, severe_thresholds)
          IN  IF d.some THEN last_emit'.decision = d ELSE last_emit' = last_emit
    /\ (run_pc = "items" /\ pending_usgs # <<>> /\ pending_usgs' = Tail(pending_usgs)) =>
          LET d == DecisionFromUsgs(rcfg, CurLoc.id, Head(pending_usgs))
          IN  IF d.some THEN last_emit'.decision = d ELSE last_emit' = last_emit
    /\ run_pc = "items" => hysteria_flag' = hysteria_flag \/ run_pc' # "items"

\* C13: the hysteria flag handed to the buffered official-alert decisions of
\* a location is evaluated only after all of the location's sources have
\* been polled and the classifier step has run; the decisions for the
\* buffered NWS and USGS items are those the location's records give,
\* whatever the order in which the sources were polled.
C13_HysteriaAfterAllSources ==
    [](C13_FlagAfterPolling) /\ [][C13_DecisionsFromFlag]_vars

\* With the news feed polled first and the official alerts last, both
\* confirmations are in and the decision for a buffered NWS item is one that
\* only an active flag gives.
C13_Witness ==
    /\ run_pc = "items"
    /\ scenario.order # SourceOrder
    /\ hysteria_flag
    /\ last_emit.decision.some
    /\ last_emit.decision.provider = S_nws
    /\ last_emit.decision \notin
          {DecisionFromNws(CurLoc, KeywordsOf(CurLoc.id), i, FALSE, severe_thresholds) :
              i \in {NwsWarning, NwsWatch, NwsWarningAnywhere}}

----------------------------------------------------------------------------
(* run(): exceptions in the classifier block *)

LlmAlerts(sm, location_id) ==
    IF location_id \notin DOMAIN sm THEN <<>>
    ELSE SelectSeq(sm[location_id].alerts, LAMBDA a : a.provider = S_llm_news)

\* The location's classifier step ended as with zero items.
AsZeroItems(location_id) ==
    /\ location_id \in DOMAIN summary
    /\ S_llm_news \in DOMAIN summary[location_id].sources
    /\ summary[location_id].sources[S_llm_news].count = 0
    /\ S_llm_news \notin confirmations[location_id]
    /\ LlmAlerts(summary, location_id) = <<>>

----------------------------------------------------------------------------
(* Claims about AlertDispatcher.dispatch *)

\* The channels dispatch is to use for the payload, and whether the service
\* of a channel fails when asked.
Wanted ==
    (IF rcfg.use_pushover /\ "pushover" \in dsp_payload.channels THEN {"pushover"} ELSE {})
    \cup (IF rcfg.use_email /\ "email" \in dsp_payload.channels THEN {"email"} ELSE {})

ChannelFails(ch) ==
    /\ ~rcfg.dry_run
    /\ IF ch = "pushover" THEN rcfg.push_credentials /\ dsp_push # "ok"
       ELSE rcfg.email_credentials /\ dsp_email # "ok"

\* C20: dispatch failures are isolated per channel: a failure (error return
\* or raised exception) on the email channel does not prevent the push
\* channel from being attempted, and a failure on the push channel does not
\* prevent the email channel from being attempted; the failed channel is
\* reported as a false delivery flag in the map dispatch returns.
C20_ChannelsIsolated ==
    dsp_pc \in {"returned", "raised"} =>
        /\ dsp_out.attempted = Wanted
        /\ dsp_pc = "returned"
        /\ \A ch \in Wanted : ChannelFails(ch) => ~dsp_out.results[ch]

\* What the code keeps of C20: an error answer of the push service (the one
\* failure a send turns into a return value) leaves the email channel
\* attempted and is reported as a false flag.
C20_HttpErrorIsolated ==
    (dsp_pc \in {"returned", "raised"} /\ dsp_push # "raise") =>
        /\ dsp_out.attempted = Wanted
        /\ (dsp_pc = "returned" /\ "pushover" \in Wanted /\ ChannelFails("pushover"))
               => ~dsp_out.results["pushover"]

----------------------------------------------------------------------------
(* run(): what the classifier step accepts, confirms and emits *)

\* The item's text holds a city, county or road token of the location.
HasLocalToken(i, keywords) ==
    LET text == Lower(i.title \o <<" ">> \o i.summary \o <<" ">> \o i.content)
        tokens == ({keywords.metadata.city, keywords.metadata.county}
                   \cup Range(keywords.roads)) \ {<<>>}
    IN  \E tok \in tokens : Contains(Lower(tok), text)

NoLocalTokens(keywords) ==
    /\ keywords.metadata.city = <<>>
    /\ keywords.metadata.county = <<>>
    /\ \A r \in Range(keywords.roads) : r = <<>>

LocalOnly(i, keywords) == HasLocalToken(i, keywords)
LocalOrNothingToMatch(i, keywords) ==
    HasLocalToken(i, keywords) \/ NoLocalTokens(keywords)

ClassifierStep ==
    /\ run_pc = "classify"
    /\ run_pc' = "llm_emit"
    /\ rcfg.llm_enabled
    /\ rss_items # <<>>

\* The three parts of C21 for one step of run(), with the locality test as
\* a parameter.
ClassifierContract(LocalTest(_, _)) ==
    /\ ClassifierStep =>
          /\ \E enrich_answer \in EnrichAnswers, llm_answer \in LlmAnswers :
                LET enriched == Enriched(rss_items, rcfg.allow_domains, rcfg.llm_max_items,
                                         rcfg.llm_max_chars, enrich_answer)
                    results == IF llm_answer.raised \/ ~llm_answer.valid_json
                               THEN <<>> ELSE llm_answer.results
                    accepted == Accepted(Filtered(enriched, rcfg.llm_max_items, llm_answer),
                                         KeywordsOf(CurLoc.id),
                                         rcfg.llm_confirm_min_severity)
                IN  /\ summary'[CurLoc.id].sources[S_llm_news].count = Len(accepted)
                    /\ \A i \in Range(accepted) :
                          /\ \E k \in 1..Min(Len(enriched), Len(results)) :
                                /\ results[k].relevant
                                /\ i.severity = SevOf(results[k])
                                /\ i.title = enriched[k].title
                                /\ i.link = enriched[k].link
                          /\ i.severity >= rcfg.llm_confirm_min_severity
                          /\ LocalTest(i, KeywordsOf(CurLoc.id))
                    /\ pending_llm' =
                          IF rcfg.llm_emit_alerts
                          THEN SelectSeq(accepted,
                                         LAMBDA i : i.severity >= rcfg.llm_min_severity)
                          ELSE <<>>
          /\ (S_llm_news \in confirmations'[CurLoc.id])
                <=> (summary'[CurLoc.id].sources[S_llm_news].count > 0)
    /\ (run_pc = "llm_emit" /\ pending_llm # <<>> /\ pending_llm' = Tail(pending_llm)) =>
          LET i == Head(pending_llm)
              d == last_emit'.decision
          IN  /\ rcfg.llm_emit_alerts
              /\ d.provider = S_llm_news
              /\ d.location_id = CurLoc.id
              /\ d.priority = IF i.severity >= 3 THEN 2 ELSE 1
    /\ ~ClassifierStep =>
          \A l \in Locs : S_llm_news \in confirmations'[l] => S_llm_news \in confirmations[l]

\* C21 as stated: an item is accepted only if the classifier flagged it
\* relevant, its severity is at least the confirmation minimum and its text
\* contains a city, county or road token of the location; "llm_news" is
\* confirmed for the location exactly when an item is accepted; and only
\* with emission enabled, each accepted item at or above the emission
\* minimum becomes a decision, of priority 2 when its severity is at least 3
\* and of priority 1 otherwise.
C21_AcceptedNeedsLocalToken == [][ClassifierContract(LocalOnly)]_vars

\* C21, amended: the same, except that for a location without any city,
\* county or road token (no keywords entry) the locality test passes every
\* item.
C21_AcceptedLocalOrFallback == [][ClassifierContract(LocalOrNothingToMatch)]_vars

\* A location with tokens: one item was accepted, "llm_news" was confirmed,
\* and the item went out at priority 1 under an emission minimum of 2.
C21_Witness ==
    /\ run_pc = "llm_emit"
    /\ rcfg.llm_min_severity = 2
    /\ CurLoc.id = S_home
    /\ S_home \in DOMAIN summary
    /\ S_llm_news \in DOMAIN summary[S_home].sources
    /\ summary[S_home].sources[S_llm_news].count = 1
    /\ S_llm_news \in confirmations[S_home]
    /\ pending_llm = <<>>
    /\ last_emit.decision.provider = S_llm_news
    /\ last_emit.decision.priority = 1

----------------------------------------------------------------------------
(* _decision_from_nws: the locality test *)

\* Lower-cased, diacritics folded to ASCII.
Folded(s) == Lower(NormalizeAscii(s))

\* The item's area/headline text contains the label, the identifier or a
\* geo term of the location.
NamesLocation(item, location_payload, keywords) ==
    \E token \in {location_payload.label, location_payload.id}
                 \cup Range(keywords.geo_terms) :
        /\ token # <<>>
        /\ Contains(Folded(token), Folded(item.area_desc) \o <<" ">> \o Folded(item.headline))

NoAreaText(item) == item.area_desc = <<>> /\ item.headline = <<>>

\* C22: an official-alert item yields a decision only if its area text or
\* headline contains (case-insensitive, diacritics folded to ASCII) the
\* location's label, its identifier or one of its geo terms, or if it has no
\* area text and no headline, in which case it is treated as applicable: an
\* item with area/headline text that names none of the tokens yields no
\* decision, whether or not hysteria is active.
C22_NwsLocality ==
    [][ DecideNws =>
          /\ nws_out'.some =>
                \/ NamesLocation(nws_item, HomePayload, HomeKeywords)
                \/ NoAreaText(nws_item)
          /\ (NoAreaText(nws_item) /\ nws_hysteria) => nws_out'.some ]_vars

\* Under active hysteria an item whose text names another county got no
\* decision.
C22_Witness ==
    /\ nws_pc = "returned"
    /\ nws_hysteria
    /\ nws_item.area_desc = S_Oak_County
    /\ nws_item.headline = <<>>
    /\ ~nws_out.some

----------------------------------------------------------------------------
(* SpecDryRun: the runner processes of Spec, started with dry_run set. *)

InitDryRun ==
    /\ rcfg = RunConfigDry
    /\ scenario \in {ScenarioOneLocation, ScenarioRepeated}
    /\ NotStarted

SpecDryRun == InitDryRun /\ [][Next]_vars

\* C23: in a dry run no outbound notification is sent on any channel for
\* any decision, while the run persists its state as a live run does: a
\* decision that passes the gate is marked seen and its cooldown is started,
\* and a run that reaches its end has written the state file, seen marks
\* and cooldowns included, and the run summary.
C23_DryRunSendsNothing ==
    /\ [](rcfg.dry_run /\ outbox = <<>>)
    /\ [][ /\ (last_emit' # last_emit \/ dispatches' # dispatches) =>
                LET d == last_emit'.decision
                IN  /\ last_emit'.outcome \in {"duplicate", "cooldown", "dispatched"}
                    /\ last_emit'.outcome = "dispatched" =>
                          /\ ~IsSeen(state, KeyOf(d))
                          /\ IsSeen(state', KeyOf(d))
                          /\ InCooldown(state', CooldownBucket(d), now).ret
                          /\ summary'[d.location_id].alerts # summary[d.location_id].alerts
                    /\ last_emit'.outcome # "dispatched" => dispatches' = dispatches
           /\ (run_pc' = "done" /\ run_pc # "done") =>
                /\ file.exists /\ file.complete
                /\ Load(file) = state
                /\ \A k \in completed : IsSeen(Load(file), k)
                /\ latest_run = [exists |-> TRUE, locations |-> summary] ]_vars

\* A dry run ended after a decision passed the gate: nothing was sent, and
\* the state file holds the decision's key and a cooldown.
C23_Witness ==
    /\ rcfg.dry_run
    /\ run_pc = "done"
    /\ completed # {}
    /\ outbox = <<>>
    /\ \A k \in completed : IsSeen(Load(file), k)
    /\ DOMAIN Load(file).cooldowns # {}
    /\ latest_run.exists

----------------------------------------------------------------------------
(* _emit_if_needed: a dispatch whose channels all report false *)

\* Dispatch returned for the key, and no delivery service has taken a
\* message for it: every channel reported false.
AllChannelsFalse(k) ==
    /\ k \in completed
    /\ \A i \in 1..Len(outbox) :
          ~(outbox[i].title = k.external_id /\ outbox[i].location_id = k.location_id)

\* C24: whenever _emit_if_needed dispatches a decision, it marks the key
\* seen and starts the bucket's cooldown in the same call, whatever
\* per-channel flags dispatch returned; a decision for which every channel
\* reported false is treated as delivered and is not dispatched again by
\* any later call or run.
C24_AllFalseNeverRedispatched ==
    [][ /\ last_emit'.outcome = "dispatched" /\ dispatches' # dispatches =>
              /\ IsSeen(state', KeyOf(last_emit'.decision))
              /\ InCooldown(state', CooldownBucket(last_emit'.decision), now).ret
        /\ \A k \in completed :
              AllChannelsFalse(k) =>
                 Count(dispatches', Composite(k)) = Count(dispatches, Composite(k)) ]_vars

\* The part of C24 that holds: within one runner process a dispatch that
\* returned, with whatever flags, marks the key and starts the cooldown, and
\* no later call of that process dispatches the key.
C24_MarkedWhateverFlags ==
    [][ EmCalls =>
          /\ last_emit'.outcome = "dispatched" =>
                /\ IsSeen(state', KeyOf(last_emit'.decision))
                /\ InCooldown(state', CooldownBucket(last_emit'.decision), now).ret
          /\ \A k \in completed :
                Count(dispatches', Composite(k)) = Count(dispatches, Composite(k)) ]_vars

----------------------------------------------------------------------------
(* _emit_if_needed: what a suppressed decision leaves behind *)

\* C25: a decision suppressed by _emit_if_needed, as a duplicate or by a
\* running cooldown, leaves the StateStore unchanged (nothing added to seen,
\* no cooldown started or extended) and adds no alert to the run summary; a
\* decision suppressed only by the cooldown therefore stays unseen, and a
\* later call with it, made when the bucket's cooldown has expired, invokes
\* dispatch.
C25_SuppressedLeavesNoTrace ==
    [][ EmCalls =>
          LET d == last_emit'.decision
          IN  /\ last_emit'.outcome \in {"duplicate", "cooldown"} =>
                    /\ state' = state
                    /\ summary' = summary
                    /\ dispatches' = dispatches
                    /\ outbox' = outbox
              /\ last_emit'.outcome = "cooldown" => ~IsSeen(state', KeyOf(d))
              /\ (KeyOf(d) \notin completed /\ ~CooldownRunning(d, now)) =>
                    /\ Count(dispatches', Composite(KeyOf(d)))
                          = Count(dispatches, Composite(KeyOf(d))) + 1
                    /\ last_emit'.outcome \in {"dispatched", "raised"} ]_vars

\* A decision with a key never dispatched was stopped by the running
\* cooldown of its bucket: the key is unseen and dispatch was not invoked
\* for it.
C25_Witness ==
    /\ last_emit.outcome = "cooldown"
    /\ CooldownRunning(last_emit.decision, now)
    /\ ~IsSeen(state, KeyOf(last_emit.decision))
    /\ Count(dispatches, Composite(KeyOf(last_emit.decision))) = 0

----------------------------------------------------------------------------
(* run(): the names that reach the corroboration sets *)

\* hysteria_active(location_id) of an engine built with hysteria_sources = n
\* and the confirmations of this run.
ActiveAt(n, location_id) ==
    HysteriaActive([cfg EXCEPT !.hysteria_sources = n], confirmations, location_id)

\* settings.hysteria.require_sources values looked at
HysteriaThresholds == 1..4

\* C26: throughout a run every location's corroboration set is a subset of
\* {"news", "llm_news"}; with the classifier disabled hysteria is never
\* active for any location when hysteria_sources >= 2, and with the
\* classifier enabled it is never active when hysteria_sources >= 3.
C26_AtMostTwoSources ==
    \A l \in Locs :
        /\ confirmations[l] \subseteq {S_news, S_llm_news}
        /\ \A n \in HysteriaThresholds :
              /\ (~rcfg.llm_enabled /\ n >= 2) => ~ActiveAt(n, l)
              /\ (rcfg.llm_enabled /\ n >= 3) => ~ActiveAt(n, l)
        /\ (~rcfg.llm_enabled /\ cfg.hysteria_sources >= 2) => ~hysteria_flag

\* With the classifier enabled a location has both names confirmed: hysteria
\* is active at threshold 2, which the run uses, and would not be at 3.
C26_Witness ==
    /\ rcfg.llm_enabled
    /\ run_pc = "items"
    /\ confirmations[CurLoc.id] = {S_news, S_llm_news}
    /\ hysteria_flag
    /\ ActiveAt(2, CurLoc.id)
    /\ ~ActiveAt(3, CurLoc.id)

----------------------------------------------------------------------------
(* SignalsEngine: one location's calls and another location's signals *)

\* The step is record_news or record_confirmation for location a.
CallFor(a) ==
    /\ Len(sig_log') = Len(sig_log) + 1
    /\ sig_log'[Len(sig_log')].op \in {"record_news", "record_confirmation"}
    /\ sig_log'[Len(sig_log')].location_id = a

\* C27: signals are isolated per location: record_news(A, ...) and
\* record_confirmation(A, ...) change neither the baseline samples nor the
\* corroboration set of another location B, so hysteria_active(B) and the
\* result of the next record_news(B, ...) are the same as without the call.
C27_LocationsIsolated ==
    [][ \A a \in Locs : CallFor(a) =>
          \A b \in Locs \ {a} :
              /\ baselines'[b] = baselines[b]
              /\ confirmations'[b] = confirmations[b]
              /\ HysteriaActive(cfg, confirmations', b) = HysteriaActive(cfg, confirmations, b)
              /\ \A c \in NewsCounts, d \in DomainCounts :
                    RecordNewsOp(cfg, baselines', confirmations', b, c, d).surge
                       = RecordNewsOp(cfg, baselines, confirmations, b, c, d).surge ]_vars

\* After one record_news for "work", a tripping record_news and a
\* record_confirmation for "home" followed: "work" still has its one sample
\* and the set it had.
C27_Witness ==
    /\ Len(sig_log) = 3
    /\ sig_log[1].op = "record_news" /\ sig_log[1].location_id = S_work
    /\ sig_log[2].op = "record_news" /\ sig_log[2].location_id = S_home
    /\ sig_log[3].op = "record_confirmation" /\ sig_log[3].location_id = S_home
    /\ Len(baselines[S_work]) = 1
    /\ confirmations[S_work] = {}
    /\ Cardinality(confirmations[S_home]) = 2

----------------------------------------------------------------------------
(* AlertKey.composite as an identity *)

\* C28: distinct AlertKeys never collide: two AlertKeys that differ in
\* location_id, provider, external_id or category have different composite
\* strings, so mark_seen(k1) never makes is_seen(k2) true for k2 # k1.
C28_CompositeInjective ==
    [][ \A k1 \in StoreKeys : StMarkSeen(k1) =>
          \A k2 \in StoreKeys \ {k1} :
              /\ Composite(k2) # Composite(k1)
              /\ IsSeen(state', k2) => IsSeen(state, k2) ]_vars

----------------------------------------------------------------------------
(* RollingBaseline: the sample window *)

\* C29: in every reachable state of a RollingBaseline with window N the
\* sample window holds at most N values, every held value is strictly
\* positive, and the values are in arrival order; appending to a full window
\* evicts exactly the oldest value, and observe with a value <= 0 leaves the
\* window unchanged.
C29_WindowBounded ==
    /\ [](/\ Len(rb_samples) <= rb_window
          /\ \A i \in 1..Len(rb_samples) : rb_samples[i] > 0
          /\ rb_samples = LastN(Positives(rb_calls), rb_window))
    /\ [][ \A value \in ObserveValues : RbObserve(value) =>
             /\ value <= 0 => rb_samples' = rb_samples
             /\ (value > 0 /\ Len(rb_samples) < rb_window) =>
                   rb_samples' = Append(rb_samples, value)
             /\ (value > 0 /\ Len(rb_samples) = rb_window) =>
                   rb_samples' = Append(Tail(rb_samples), value) ]_vars

\* A full window has evicted its oldest value, and calls with zero and with
\* a negative value have been made.
C29_Witness ==
    /\ Len(Positives(rb_calls)) > rb_window
    /\ Len(rb_samples) = rb_window
    /\ rb_window >= 2
    /\ \E i \in 1..Len(rb_calls) : rb_calls[i] = 0
    /\ \E i \in 1..Len(rb_calls) : rb_calls[i] < 0

----------------------------------------------------------------------------
(* run(): which news results reach the surge detector *)

SurgesOf(sm, location_id) ==
    IF location_id \in DOMAIN sm THEN sm[location_id].surges ELSE <<>>

\* The step is line 198 and what follows for the news source, and the
\* source returned.
NewsPolled ==
    /\ run_pc = "fetch"
    /\ scenario.order[src_ix] = S_news_rss
    /\ (src_ix' = src_ix + 1 \/ run_pc' = "classify")

\* C30: a news result with ok=false is not fed to the surge detector: the
\* location's baseline samples and corroboration set stay as they were and
\* no surge observation is added to the run summary; a successful news
\* result is fed exactly once, with its number of items as count and its
\* number of distinct non-empty item domains.
C30_OnlyOkNewsFed ==
    [][ /\ NewsPolled =>
              LET l == CurLoc.id
                  rec == summary'[l].sources[S_news_rss]
                  before == SurgesOf(summary, l)
                  after == SurgesOf(summary', l)
              IN  /\ ~rec.ok =>
                        /\ baselines' = baselines
                        /\ confirmations' = confirmations
                        /\ after = before
                  /\ rec.ok =>
                        /\ Len(after) = Len(before) + 1
                        /\ SubSeq(after, 1, Len(before)) = before
                        /\ after[Len(after)].count = rec.count
                        /\ rec.count = Len(rss_items')
                        /\ after[Len(after)].domains =
                              Cardinality({rss_items'[i].domain :
                                              i \in 1..Len(rss_items')} \ {<<>>})
                        /\ surge'.location_id = l
                        /\ surge'.count = rec.count
                        /\ surge'.distinct_domains = after[Len(after)].domains
                        /\ baselines'[l] =
                              IF rec.count > 0 THEN Append(baselines[l], rec.count)
                              ELSE baselines[l]
                        /\ \A o \in Locs \ {l} : baselines'[o] = baselines[o]
        /\ (~NewsPolled /\ runs' = runs) =>
              /\ baselines' = baselines
              /\ \A l \in Locs : SurgesOf(summary', l) = SurgesOf(summary, l) ]_vars

\* The news source failed for a location and the run went on: no sample, no
\* confirmation and no surge observation for it.
C30_Witness ==
    /\ run_pc = "items"
    /\ S_news_rss \in DOMAIN summary[CurLoc.id].sources
    /\ ~summary[CurLoc.id].sources[S_news_rss].ok
    /\ summary[CurLoc.id].surges = <<>>
    /\ baselines[CurLoc.id] = <<>>
    /\ confirmations[CurLoc.id] = {}

====
